---------------------------- MODULE Spec2Model ----------------------------
(***************************************************************************)
(* A model of the Fortune sweep-line Voronoi builder of this repository:   *)
(* the event queue (event.rs), the beachline tree (beachline.rs), the DCEL *)
(* (diagram.rs), the bounding box passes (boundingbox.rs), the builder     *)
(* (voronoi_builder.rs, lib.rs) and the positional pool (typedvector.rs).  *)
(*                                                                         *)
(* f64 values are modelled as exact rationals extended with the IEEE       *)
(* special values -0, +inf, -inf and NaN.  The two square roots of the     *)
(* program (the radius of a circle event and the discriminant of a         *)
(* breakpoint) are kept symbolic and compared exactly; the only rounding   *)
(* modelled is that of the y of a circle event that ties with the y of     *)
(* the event being handled (Rounded).                                      *)
(***************************************************************************)
EXTENDS Integers, Sequences, FiniteSets, TLC

\* Option::None of a key, an index or a handle: these count from 1
None == 0

\* no unwrap has failed and no panic! was reached
NoPanic == "no panic"

(***************************************************************************)
(* f64: [k, n, d].  k = "num" is the rational n/d (d > 0, lowest terms,    *)
(* n = 0 is +0); "nz" is -0; "pinf", "ninf", "nan" are the special values. *)
(***************************************************************************)
RECURSIVE GCD(_, _)
GCD(a, b) == IF b = 0 THEN a ELSE GCD(b, a % b)

IAbs(a) == IF a < 0 THEN -a ELSE a

Num(n, d) ==
    LET s == IF d < 0 THEN -1 ELSE 1
        g == GCD(IAbs(n), IAbs(d))
    IN  [k |-> "num", n |-> (s * n) \div g, d |-> (s * d) \div g]

Zero == [k |-> "num", n |-> 0, d |-> 1]
One == [k |-> "num", n |-> 1, d |-> 1]
Half == [k |-> "num", n |-> 1, d |-> 2]
NegZero == [k |-> "nz", n |-> 0, d |-> 1]
PInf == [k |-> "pinf", n |-> 0, d |-> 1]
NInf == [k |-> "ninf", n |-> 0, d |-> 1]
NaN == [k |-> "nan", n |-> 0, d |-> 1]

IsNaN(x) == x.k = "nan"
IsInf(x) == x.k \in {"pinf", "ninf"}
IsFinite(x) == x.k \in {"num", "nz"}
IsZero(x) == x.k = "nz" \/ (x.k = "num" /\ x.n = 0)
\* the sign bit
SignBit(x) == x.k \in {"nz", "ninf"} \/ (x.k = "num" /\ x.n < 0)
SignedZero(neg) == IF neg THEN NegZero ELSE Zero
SignedInf(neg) == IF neg THEN NInf ELSE PInf

FNeg(x) ==
    CASE x.k = "nan" -> NaN
      [] x.k = "pinf" -> NInf
      [] x.k = "ninf" -> PInf
      [] x.k = "nz" -> Zero
      [] OTHER -> IF x.n = 0 THEN NegZero ELSE [x EXCEPT !.n = -x.n]

FAdd(x, y) ==
    CASE IsNaN(x) \/ IsNaN(y) -> NaN
      [] IsInf(x) /\ IsInf(y) -> IF x.k = y.k THEN x ELSE NaN
      [] IsInf(x) -> x
      [] IsInf(y) -> y
      [] IsZero(x) /\ IsZero(y) -> SignedZero(SignBit(x) /\ SignBit(y))
      [] OTHER -> Num(x.n * y.d + y.n * x.d, x.d * y.d)

FSub(x, y) == FAdd(x, FNeg(y))

FMul(x, y) ==
    CASE IsNaN(x) \/ IsNaN(y) -> NaN
      [] (IsInf(x) /\ IsZero(y)) \/ (IsZero(x) /\ IsInf(y)) -> NaN
      [] IsInf(x) \/ IsInf(y) -> SignedInf(SignBit(x) # SignBit(y))
      [] IsZero(x) \/ IsZero(y) -> SignedZero(SignBit(x) # SignBit(y))
      [] OTHER -> Num(x.n * y.n, x.d * y.d)

FDiv(x, y) ==
    CASE IsNaN(x) \/ IsNaN(y) -> NaN
      [] IsInf(x) /\ IsInf(y) -> NaN
      [] IsZero(x) /\ IsZero(y) -> NaN
      [] IsInf(x) \/ IsZero(y) -> SignedInf(SignBit(x) # SignBit(y))
      [] IsInf(y) \/ IsZero(x) -> SignedZero(SignBit(x) # SignBit(y))
      [] OTHER -> Num(x.n * y.d, x.d * y.n)

\* -1, 0, 1: the order of two values neither of which is NaN
FCmp(x, y) ==
    CASE x.k = "pinf" -> IF y.k = "pinf" THEN 0 ELSE 1
      [] x.k = "ninf" -> IF y.k = "ninf" THEN 0 ELSE -1
      [] y.k = "pinf" -> -1
      [] y.k = "ninf" -> 1
      [] OTHER -> LET l == x.n * y.d
                      r == y.n * x.d
                  IN  IF l < r THEN -1 ELSE IF l > r THEN 1 ELSE 0

FLt(x, y) == ~IsNaN(x) /\ ~IsNaN(y) /\ FCmp(x, y) < 0
FGt(x, y) == ~IsNaN(x) /\ ~IsNaN(y) /\ FCmp(x, y) > 0
FLe(x, y) == ~IsNaN(x) /\ ~IsNaN(y) /\ FCmp(x, y) <= 0
FGe(x, y) == ~IsNaN(x) /\ ~IsNaN(y) /\ FCmp(x, y) >= 0
FEq(x, y) == ~IsNaN(x) /\ ~IsNaN(y) /\ FCmp(x, y) = 0

\* f64::min, f64::max: a NaN operand is ignored
FMin(x, y) == IF IsNaN(x) THEN y ELSE IF IsNaN(y) THEN x ELSE IF FCmp(y, x) < 0 THEN y ELSE x
FMax(x, y) == IF IsNaN(x) THEN y ELSE IF IsNaN(y) THEN x ELSE IF FCmp(y, x) > 0 THEN y ELSE x
FAbs(x) == IF SignBit(x) THEN FNeg(x) ELSE x
FSq(x) == FMul(x, x)


ISign(a) == IF a < 0 THEN -1 ELSE IF a > 0 THEN 1 ELSE 0
\* the sign of a value that is not NaN
FSign(x) == FCmp(x, Zero)

(***************************************************************************)
(* A value a + sqrt(r), the square root kept symbolic: [a, r, err].  The y *)
(* of an event is such a value (center.y + radius); r = 0 for a site       *)
(* event.  err is the rounding of the f64 that was computed: 0 when it is  *)
(* a + sqrt(r), -1 when it is the f64 just below (less than f64::EPSILON   *)
(* below, for the values of the model).                                    *)
(***************************************************************************)
Plain(a) == [a |-> a, r |-> Zero, err |-> 0]

\* a + sqrt(r) as f64 arithmetic gives it on special operands
AddSqrt(a, r) ==
    CASE IsNaN(a) \/ IsNaN(r) -> Plain(NaN)
      [] r.k = "ninf" \/ (r.k = "num" /\ r.n < 0) -> Plain(NaN)
      [] r.k = "pinf" -> Plain(FAdd(a, PInf))
      [] IsInf(a) -> Plain(a)
      [] OTHER -> [a |-> a, r |-> r, err |-> 0]

YIsNaN(y) == IsNaN(y.a)
YIsFinite(y) == IsFinite(y.a)

\* the sign of d + sqrt(r1) - sqrt(r2), for finite d and finite r1, r2 >= 0
RECURSIVE SurdSign(_, _, _)
SurdSign(d, r1, r2) ==
    LET sd == FSign(d)
        sr == FCmp(r1, r2)
    IN  CASE sd >= 0 /\ sr >= 0 -> IF sd = 0 /\ sr = 0 THEN 0 ELSE 1
          [] sd <= 0 /\ sr <= 0 -> -1
          [] sd > 0 /\ sr < 0 ->
                LET e == FSub(FSub(r2, r1), FSq(d))
                IN  IF FSign(e) < 0 THEN 1
                    ELSE FCmp(FMul(FMul(Num(4, 1), FSq(d)), r1), FSq(e))
          [] OTHER -> -SurdSign(FNeg(d), r2, r1)

\* -1, 0, 1: the order of the values a + sqrt(r) of two ys, neither NaN
YCmpExact(y1, y2) ==
    IF YIsFinite(y1) /\ YIsFinite(y2)
    THEN SurdSign(FSub(y1.a, y2.a), y1.r, y2.r)
    ELSE FCmp(y1.a, y2.a)

\* -1, 0, 1: the order of two event ys neither of which is NaN, as f64s
YCmp(y1, y2) ==
    IF YCmpExact(y1, y2) # 0 \/ ~YIsFinite(y1) THEN YCmpExact(y1, y2)
    ELSE ISign(y1.err - y2.err)

YGt(y1, y2) == ~YIsNaN(y1) /\ ~YIsNaN(y2) /\ YCmp(y1, y2) > 0
YLt(y1, y2) == ~YIsNaN(y1) /\ ~YIsNaN(y2) /\ YCmp(y1, y2) < 0
YLe(y1, y2) == ~YIsNaN(y1) /\ ~YIsNaN(y2) /\ YCmp(y1, y2) <= 0
YEq(y1, y2) == ~YIsNaN(y1) /\ ~YIsNaN(y2) /\ YCmp(y1, y2) = 0

(***************************************************************************)
(* y1 > y2 - f64::EPSILON.  EPSILON is 2^-52: two distinct finite values   *)
(* of the model differ by far more and a rounding by less, so for finite   *)
(* operands the test is a1 + sqrt(r1) >= a2 + sqrt(r2); an infinite y2     *)
(* absorbs the EPSILON.                                                    *)
(***************************************************************************)
YGtMinusEpsilon(y1, y2) ==
    /\ ~YIsNaN(y1)
    /\ ~YIsNaN(y2)
    /\ IF YIsFinite(y1) /\ YIsFinite(y2)
       THEN YCmpExact(y1, y2) >= 0
       ELSE YCmpExact(y1, y2) > 0

(***************************************************************************)
(* The f64 that center.y + radius comes out as.  The center and the radius *)
(* are rounded results, so the sum is a + sqrt(r) or a neighbouring f64;   *)
(* which one depends on the bits of the operands, which the model does not *)
(* keep, so it is the choice rounding (0 or -1).  The choice is kept where *)
(* it decides a comparison the build makes: where the value is that of the *)
(* current y.                                                              *)
(***************************************************************************)
Roundings == {0, -1}

Rounded(event_y, current_y, rounding) ==
    IF YIsFinite(event_y) /\ YIsFinite(current_y) /\ YCmpExact(event_y, current_y) = 0
    THEN [event_y EXCEPT !.err = rounding]
    ELSE event_y

(***************************************************************************)
(* Vector2: [x, y]                                                         *)
(***************************************************************************)
Vec(x, y) == [x |-> x, y |-> y]
VSub(a, b) == Vec(FSub(a.x, b.x), FSub(a.y, b.y))
VAdd(a, b) == Vec(FAdd(a.x, b.x), FAdd(a.y, b.y))
VMul(a, s) == Vec(FMul(a.x, s), FMul(a.y, s))
get_orthogonal(a) == Vec(FNeg(a.y), a.x)
get_det(a, b) == FSub(FMul(a.x, b.y), FMul(a.y, b.x))
\* the square of get_norm
Norm2(a) == FAdd(FSq(a.x), FSq(a.y))
\* the square of get_distance
Distance2(a, b) == Norm2(VSub(a, b))

compute_circumcircle_center(point_1, point_2, point_3) ==
    LET v1 == get_orthogonal(VSub(point_1, point_2))
        v2 == get_orthogonal(VSub(point_2, point_3))
        delta == VMul(VSub(point_3, point_1), Half)
        t == FDiv(get_det(delta, v2), get_det(v1, v2))
    IN  VAdd(VMul(VAdd(point_1, point_2), Half), VMul(v1, t))

(***************************************************************************)
(* event.rs.  An Event is [id, y, index, kind, face, point, arc]; id names *)
(* the Rc allocation, so a Weak handle is the id and it upgrades while an   *)
(* event with that id is in the queue.  The queue is the Vec, positions     *)
(* counted from 0 as in the code: position i is queue[i + 1].              *)
(***************************************************************************)
\* the point of an event that has none
NoPoint == [x |-> Zero, y |-> Zero]

SiteEvent(id, y, index, face) ==
    [id |-> id, y |-> y, index |-> index, kind |-> "site", face |-> face,
     point |-> NoPoint, arc |-> None]

CircleEvent(id, y, index, point, arc) ==
    [id |-> id, y |-> y, index |-> index, kind |-> "circle", face |-> None,
     point |-> point, arc |-> arc]

\* Option::None of an event
NoEvent ==
    [id |-> None, y |-> Plain(Zero), index |-> 0, kind |-> "none", face |-> None,
     point |-> NoPoint, arc |-> None]

\* PartialOrd for Event: the order of the ys
EventGt(e1, e2) == YGt(e1.y, e2.y)

get_parent(index) == (index + 1) \div 2 - 1
get_left(index) == 2 * (index + 1) - 1
get_right(index) == 2 * (index + 1)

\* a swap that exchanges the two events and leaves their index fields alone
swap_positions(q, idx_1, idx_2) ==
    [k \in 1..Len(q) |->
        IF k = idx_2 + 1 THEN q[idx_1 + 1]
        ELSE IF k = idx_1 + 1 THEN q[idx_2 + 1]
        ELSE q[k]]

swap(q, idx_1, idx_2) ==
    [k \in 1..Len(q) |->
        IF k = idx_2 + 1 THEN [q[idx_1 + 1] EXCEPT !.index = idx_2]
        ELSE IF k = idx_1 + 1 THEN [q[idx_2 + 1] EXCEPT !.index = idx_1]
        ELSE q[k]]

RECURSIVE sift_up(_, _)
sift_up(q, index) ==
    IF index > 0 /\ EventGt(q[get_parent(index) + 1], q[index + 1])
    THEN sift_up(swap(q, index, get_parent(index)), get_parent(index))
    ELSE q

\* a sift_down that leaves the queue as it is
sift_down_skipped(q, index) == q

RECURSIVE sift_down(_, _)
sift_down(q, index) ==
    LET left == get_left(index)
        right == get_right(index)
        idx_l == IF left < Len(q) /\ EventGt(q[index + 1], q[left + 1])
                 THEN left ELSE index
        new_index == IF right < Len(q) /\ EventGt(q[idx_l + 1], q[right + 1])
                     THEN right ELSE idx_l
    IN  IF new_index # index
        THEN sift_down(swap(q, index, new_index), new_index)
        ELSE q

\* add_site_event, add_circle_event: ev is the new event, its index Len(q)
add_event_to_queue(q, ev) == sift_up(Append(q, ev), Len(q))

\* pop: [queue, event], event = NoEvent on an empty queue
pop(q) ==
    IF q = <<>>
    THEN [queue |-> q, event |-> NoEvent]
    ELSE LET swapped == swap(q, 0, Len(q) - 1)
         IN  [queue |-> sift_down(SubSeq(swapped, 1, Len(q) - 1), 0),
              event |-> swapped[Len(q)]]

\* an update that leaves the queue as it is
update_skipped(q, index) == q

update(q, index) ==
    IF index > 0 /\ EventGt(q[get_parent(index) + 1], q[index + 1])
    THEN sift_up(q, index)
    ELSE sift_down(q, index)

\* remove_event: [queue, ok]; the swap panics when index is no position
remove_event(q, index) ==
    IF index < 0 \/ index >= Len(q)
    THEN [queue |-> q, ok |-> FALSE]
    ELSE LET popped == SubSeq(swap(q, index, Len(q) - 1), 1, Len(q) - 1)
         IN  [queue |-> IF index < Len(popped) THEN update(popped, index) ELSE popped,
              ok |-> TRUE]

\* a handle that keeps the position its event was pushed at, and upgrades
\* to whatever event is there
upgrade_by_position(q, handle) ==
    IF handle # None /\ handle <= Len(q) THEN q[handle] ELSE NoEvent

\* Weak::upgrade: the event of the handle while it is in the queue
upgrade(q, handle) ==
    IF handle # None /\ \E k \in 1..Len(q) : q[k].id = handle
    THEN q[CHOOSE k \in 1..Len(q) : q[k].id = handle]
    ELSE NoEvent

\* lib.rs delete_event, on the handle an arc stores: [queue, ok]
delete_event_handle(q, handle) ==
    LET event == upgrade(q, handle)
    IN  IF event # NoEvent THEN remove_event(q, event.index)
        ELSE [queue |-> q, ok |-> TRUE]

(***************************************************************************)
(* diagram.rs.  A Diagram is [faces, vertices, half_edges, vertex_count,   *)
(* half_edge_count]: faces is the sequence of the faces in insertion order *)
(* (a FaceKey is the position), vertices and half_edges are functions from *)
(* the live keys, and a new key is the next count (a slot map never hands  *)
(* out a key twice).                                                       *)
(***************************************************************************)
EmptyDiagram ==
    [faces |-> <<>>, vertices |-> <<>>, half_edges |-> <<>>,
     vertex_count |-> 0, half_edge_count |-> 0]

Face(point) == [point |-> point, outer_component |-> None]

HalfEdge(incident_face) ==
    [origin |-> None, destination |-> None, incident_face |-> incident_face,
     twin |-> None, prev |-> None, next |-> None]

\* f extended (or overwritten) at key k with value v
Put(f, k, v) == [x \in DOMAIN f \cup {k} |-> IF x = k THEN v ELSE f[x]]
\* f without key k
Drop(f, k) == [x \in DOMAIN f \ {k} |-> f[x]]

add_face(d, point) == [d EXCEPT !.faces = Append(@, Face(point))]

get_face_indices(d) == [i \in 1..Len(d.faces) |-> i]

\* an add_half_edge that makes the new half-edge the outer component of the
\* face whether or not the face has one
add_half_edge_overwriting(d, face) ==
    LET new_half_edge == d.half_edge_count + 1
    IN  [d EXCEPT !.half_edges = Put(@, new_half_edge, HalfEdge(face)),
                  !.half_edge_count = new_half_edge,
                  !.faces[face].outer_component = new_half_edge]

\* the key add_half_edge returns is d.half_edge_count + 1
add_half_edge(d, face) ==
    LET new_half_edge == d.half_edge_count + 1
    IN  [d EXCEPT !.half_edges = Put(@, new_half_edge, HalfEdge(face)),
                  !.half_edge_count = new_half_edge,
                  !.faces[face].outer_component =
                      IF @ = None THEN new_half_edge ELSE @]

\* an add_edge that sets the twin of the first half-edge only
add_edge_one_way(d, left_face, right_face) ==
    [add_half_edge(add_half_edge(d, left_face), right_face)
        EXCEPT !.half_edges[d.half_edge_count + 1].twin = d.half_edge_count + 2]

\* the keys add_edge returns are d.half_edge_count + 1 and + 2
add_edge(d, left_face, right_face) ==
    LET half_edge_1 == d.half_edge_count + 1
        half_edge_2 == d.half_edge_count + 2
        d2 == add_half_edge(add_half_edge(d, left_face), right_face)
    IN  [d2 EXCEPT !.half_edges[half_edge_1].twin = half_edge_2,
                   !.half_edges[half_edge_2].twin = half_edge_1]

\* the key add_vertex returns is d.vertex_count + 1
add_vertex(d, point) ==
    [d EXCEPT !.vertices = Put(@, d.vertex_count + 1, [point |-> point]),
              !.vertex_count = @ + 1]

remove_half_edge(d, half_edge) == [d EXCEPT !.half_edges = Drop(@, half_edge)]
remove_vertex(d, vertex) == [d EXCEPT !.vertices = Drop(@, vertex)]

link_half_edges(d, prev, next) ==
    [d EXCEPT !.half_edges[next].prev = prev, !.half_edges[prev].next = next]

set_half_edge_origin(d, half_edge, origin) ==
    [d EXCEPT !.half_edges[half_edge].origin = origin]

set_half_edge_destination(d, half_edge, destination) ==
    [d EXCEPT !.half_edges[half_edge].destination = destination]

set_face_outer_component(d, face, half_edge) ==
    [d EXCEPT !.faces[face].outer_component = half_edge]

get_face_point(d, face) == d.faces[face].point
get_vertex_point(d, vertex) == d.vertices[vertex].point

(***************************************************************************)
(* beachline.rs.  A Beachline is [arcs, root, arc_count]: arcs is the      *)
(* arena, a function from the live indices, and a new index is the next    *)
(* count (a generational index is never handed out twice).                 *)
(***************************************************************************)
EmptyBeachline == [arcs |-> <<>>, root |-> None, arc_count |-> 0]

Arc(site) ==
    [parent |-> None, left |-> None, right |-> None, site |-> site,
     left_half_edge |-> None, right_half_edge |-> None, prev |-> None,
     next |-> None, event |-> None, color |-> "RED"]

has_root(b) == b.root # None

\* arcs.insert: the index returned is b.arc_count + 1
arena_insert(b, arc) ==
    [b EXCEPT !.arcs = Put(@, b.arc_count + 1, arc), !.arc_count = @ + 1]

set_left(b, arc, left) == [b EXCEPT !.arcs[arc].left = left]
set_right(b, arc, right) == [b EXCEPT !.arcs[arc].right = right]
set_parent(b, arc, parent) == [b EXCEPT !.arcs[arc].parent = parent]
set_prev(b, arc, prev) == [b EXCEPT !.arcs[arc].prev = prev]
set_next(b, arc, next) == [b EXCEPT !.arcs[arc].next = next]
set_color(b, arc, color) == [b EXCEPT !.arcs[arc].color = color]
\* a setter that leaves the left half-edge as it is
set_left_half_edge_dropped(b, arc, e) == b

set_left_half_edge(b, arc, e) == [b EXCEPT !.arcs[arc].left_half_edge = e]
\* a set_right_half_edge that writes the left half-edge of the arc instead
set_right_half_edge_misplaced(b, arc, e) == [b EXCEPT !.arcs[arc].left_half_edge = e]
set_right_half_edge(b, arc, e) == [b EXCEPT !.arcs[arc].right_half_edge = e]
\* a set_arc_event that does not store the handle
set_arc_event_skipped(b, arc, event) == b
set_arc_event(b, arc, event) == [b EXCEPT !.arcs[arc].event = event]

create_root(b, site) ==
    LET root == b.arc_count + 1
    IN  [set_color(arena_insert(b, Arc(site)), root, "BLACK") EXCEPT !.root = root]

RECURSIVE get_leftmost_arc(_, _)
get_leftmost_arc(b, arc) ==
    IF b.arcs[arc].left = None THEN arc ELSE get_leftmost_arc(b, b.arcs[arc].left)

transplant(b, old_arc, new_arc) ==
    LET parent == b.arcs[old_arc].parent
    IN  IF new_arc # None
        THEN set_parent(IF parent = None THEN [b EXCEPT !.root = new_arc]
                        ELSE IF b.arcs[parent].left = old_arc
                        THEN set_left(b, parent, new_arc)
                        ELSE set_right(b, parent, new_arc),
                        new_arc, parent)
        ELSE IF parent = None THEN [b EXCEPT !.root = new_arc]
        ELSE IF b.arcs[parent].left = old_arc THEN set_left(b, parent, new_arc)
        ELSE set_right(b, parent, new_arc)

\* replace, lines 209 to 213: the left child
replace_left(b, old_arc, new_arc) ==
    LET left == b.arcs[old_arc].left
    IN  IF left # None THEN set_parent(set_left(b, new_arc, left), left, new_arc)
        ELSE set_left(b, new_arc, left)

\* replace, lines 214 to 218: the right child
replace_right(b, old_arc, new_arc) ==
    LET right == b.arcs[old_arc].right
    IN  IF right # None THEN set_parent(set_right(b, new_arc, right), right, new_arc)
        ELSE set_right(b, new_arc, right)

\* replace, lines 219 to 223: the previous arc
replace_prev(b, old_arc, new_arc) ==
    LET prev == b.arcs[old_arc].prev
    IN  IF prev # None THEN set_next(set_prev(b, new_arc, prev), prev, new_arc)
        ELSE set_prev(b, new_arc, prev)

\* replace, lines 224 to 228: the next arc
replace_next(b, old_arc, new_arc) ==
    LET next == b.arcs[old_arc].next
    IN  IF next # None THEN set_prev(set_next(b, new_arc, next), next, new_arc)
        ELSE set_next(b, new_arc, next)

replace(b, old_arc, new_arc) ==
    set_color(replace_next(replace_prev(replace_right(replace_left(
                  transplant(b, old_arc, new_arc),
                  old_arc, new_arc), old_arc, new_arc), old_arc, new_arc),
                  old_arc, new_arc),
              new_arc, b.arcs[old_arc].color)

\* insert_before, lines 235 to 242: the place in the tree
insert_before_tree(b, existing_arc, new_arc) ==
    LET existing_arc_prev == b.arcs[existing_arc].prev
    IN  IF b.arcs[existing_arc].left = None
        THEN set_parent(set_left(b, existing_arc, new_arc), new_arc, existing_arc)
        ELSE set_parent(set_right(b, existing_arc_prev, new_arc),
                        new_arc, existing_arc_prev)

\* insert_before, lines 243 to 248: the place in the list
insert_before_list(b, existing_arc, new_arc) ==
    LET existing_arc_prev == b.arcs[existing_arc].prev
    IN  set_prev(set_next(IF existing_arc_prev # None
                          THEN set_next(set_prev(b, new_arc, existing_arc_prev),
                                        existing_arc_prev, new_arc)
                          ELSE set_prev(b, new_arc, existing_arc_prev),
                          new_arc, existing_arc),
                 existing_arc, new_arc)

insert_before(b, existing_arc, new_arc) ==
    insert_before_list(insert_before_tree(b, existing_arc, new_arc),
                       existing_arc, new_arc)

\* insert_after, lines 255 to 262: the place in the tree
insert_after_tree(b, existing_arc, new_arc) ==
    LET existing_arc_next == b.arcs[existing_arc].next
    IN  IF b.arcs[existing_arc].right = None
        THEN set_parent(set_right(b, existing_arc, new_arc), new_arc, existing_arc)
        ELSE set_parent(set_left(b, existing_arc_next, new_arc),
                        new_arc, existing_arc_next)

\* insert_after, lines 264 to 270: the place in the list
insert_after_list(b, existing_arc, new_arc) ==
    LET existing_arc_next == b.arcs[existing_arc].next
    IN  set_next(set_prev(IF existing_arc_next # None
                          THEN set_prev(set_next(b, new_arc, existing_arc_next),
                                        existing_arc_next, new_arc)
                          ELSE set_next(b, new_arc, existing_arc_next),
                          new_arc, existing_arc),
                 existing_arc, new_arc)

\* an insert_after that leaves the prev of the arc after the new one as it was
insert_after_forward_only(b, existing_arc, new_arc) ==
    set_next(set_prev(set_next(insert_after_tree(b, existing_arc, new_arc), new_arc,
                               b.arcs[existing_arc].next),
                      new_arc, existing_arc),
             existing_arc, new_arc)

insert_after(b, existing_arc, new_arc) ==
    insert_after_list(insert_after_tree(b, existing_arc, new_arc),
                      existing_arc, new_arc)

\* a break_arc_create that hands the old arc's half-edges to the wrong copies
break_arc_create_crossed(b, arc, new_site) ==
    set_right_half_edge(
        arena_insert(
            set_left_half_edge(
                arena_insert(arena_insert(b, Arc(new_site)), Arc(b.arcs[arc].site)),
                b.arc_count + 2, b.arcs[arc].right_half_edge),
            Arc(b.arcs[arc].site)),
        b.arc_count + 3, b.arcs[arc].left_half_edge)

\* break_arc, lines 146 to 154: the three new arcs, at the indices
\* b.arc_count + 1 (middle_arc), + 2 (left_arc) and + 3 (right_arc)
break_arc_create(b, arc, new_site) ==
    LET arc_site == b.arcs[arc].site
        left_arc == b.arc_count + 2
        right_arc == b.arc_count + 3
    IN  set_right_half_edge(
            arena_insert(
                set_left_half_edge(
                    arena_insert(arena_insert(b, Arc(new_site)), Arc(arc_site)),
                    left_arc, b.arcs[arc].left_half_edge),
                Arc(arc_site)),
            right_arc, b.arcs[arc].right_half_edge)

\* the index break_arc returns (middle_arc) is b.arc_count + 1
break_arc(b, arc, new_site) ==
    LET middle_arc == b.arc_count + 1
        left_arc == b.arc_count + 2
        right_arc == b.arc_count + 3
    IN  [insert_after(insert_before(replace(break_arc_create(b, arc, new_site),
                                            arc, middle_arc),
                                    middle_arc, left_arc),
                      middle_arc, right_arc)
         EXCEPT !.arcs = Drop(@, arc)]

\* remove_arc, lines 286 to 301: the arc has two children
remove_arc_two_children(b, arc) ==
    LET left == b.arcs[arc].left
        right == b.arcs[arc].right
        minimum == get_leftmost_arc(b, right)
    IN  set_color(
            set_parent(
                set_left(
                    transplant(
                        IF b.arcs[minimum].parent # arc
                        THEN set_parent(
                                 set_right(transplant(b, minimum, b.arcs[minimum].right),
                                           minimum, right),
                                 right, minimum)
                        ELSE b,
                        arc, minimum),
                    minimum, left),
                left, minimum),
            minimum, b.arcs[arc].color)

\* remove_arc, lines 303 to 312: the arc leaves the list and the arena
remove_arc_unlink(b, arc) ==
    LET prev == b.arcs[arc].prev
        next == b.arcs[arc].next
    IN  [arcs |-> Drop((IF next # None
                        THEN set_prev(IF prev # None THEN set_next(b, prev, next) ELSE b,
                                      next, prev)
                        ELSE IF prev # None THEN set_next(b, prev, next) ELSE b).arcs,
                       arc),
         root |-> b.root, arc_count |-> b.arc_count]

\* a removal that leaves the arc in the beachline
remove_arc_from_beachline_skipped(b, arc) == b

remove_arc_from_beachline(b, arc) ==
    remove_arc_unlink(
        IF b.arcs[arc].left = None THEN transplant(b, arc, b.arcs[arc].right)
        ELSE IF b.arcs[arc].right = None THEN transplant(b, arc, b.arcs[arc].left)
        ELSE remove_arc_two_children(b, arc),
        arc)

(***************************************************************************)
(* compute_breakpoint.  The result is [k |-> "val", v] for a value the     *)
(* code returns without a square root, and [k |-> "root", a, b, delta] for *)
(* (-b - sqrt(delta)) / (2a), the root kept symbolic.                      *)
(***************************************************************************)
BVal(v) == [k |-> "val", v |-> v, a |-> Zero, b |-> Zero, delta |-> Zero]

Two == Num(2, 1)

compute_breakpoint(point1, point2, y) ==
    LET d1 == FDiv(One, FMul(Two, FSub(point1.y, y)))
        d2 == FDiv(One, FMul(Two, FSub(point2.y, y)))
        a == FSub(d1, d2)
        b == FMul(Two, FSub(FMul(point2.x, d2), FMul(point1.x, d1)))
        c == FSub(FMul(FSub(FAdd(FSq(point1.y), FSq(point1.x)), FSq(y)), d1),
                  FMul(FSub(FAdd(FSq(point2.y), FSq(point2.x)), FSq(y)), d2))
        delta == FSub(FSq(b), FMul(FMul(Num(4, 1), a), c))
    IN  IF FEq(a, Zero) THEN BVal(FDiv(FNeg(c), b))
        ELSE IF FEq(point1.y, y) THEN BVal(point1.x)
        ELSE IF FEq(point2.y, y) THEN BVal(point2.y)
        ELSE IF ~IsFinite(a) \/ ~IsFinite(b) \/ ~IsFinite(delta) \/ FSign(delta) < 0
             THEN BVal(NaN)
        ELSE [k |-> "root", v |-> Zero, a |-> a, b |-> b, delta |-> delta]

\* the sign of x - bp for a finite x and a "root" breakpoint:
\* x - (-b - sqrt(delta)) / (2a) = (2ax + b + sqrt(delta)) / (2a)
RootCmp(x, bp) ==
    SurdSign(FAdd(FMul(FMul(Two, bp.a), x), bp.b), bp.delta, Zero) * FSign(bp.a)

\* x < bp, x > bp
BreakpointLt(x, bp) == IF bp.k = "val" THEN FLt(x, bp.v) ELSE RootCmp(x, bp) < 0
BreakpointGt(x, bp) == IF bp.k = "val" THEN FGt(x, bp.v) ELSE RootCmp(x, bp) > 0

(***************************************************************************)
(* locate_arc_above: [arc, panic].  panic names the failure when the       *)
(* descent unwraps a missing child or meets two sites at the same point.   *)
(***************************************************************************)
RECURSIVE locate_from(_, _, _, _, _)
locate_from(b, d, point, y, current_arc) ==
    LET arc == b.arcs[current_arc]
        current_arc_focus == get_face_point(d, arc.site)
        breakpoint_left ==
            IF arc.prev # None
            THEN compute_breakpoint(get_face_point(d, b.arcs[arc.prev].site),
                                    current_arc_focus, y)
            ELSE BVal(NInf)
        breakpoint_right ==
            IF arc.next # None
            THEN compute_breakpoint(current_arc_focus,
                                    get_face_point(d, b.arcs[arc.next].site), y)
            ELSE BVal(PInf)
        go_left == IF arc.left = None
                   THEN [arc |-> None, panic |-> "locate_arc_above: get_left is None"]
                   ELSE locate_from(b, d, point, y, arc.left)
        go_right == IF arc.right = None
                    THEN [arc |-> None, panic |-> "locate_arc_above: get_right is None"]
                    ELSE locate_from(b, d, point, y, arc.right)
    IN  IF FEq(current_arc_focus.y, y)
        THEN IF FLt(point.x, current_arc_focus.x) THEN go_left
             ELSE IF FGt(point.x, current_arc_focus.x) THEN go_right
             ELSE [arc |-> None, panic |-> "Two sites located at the same point"]
        ELSE IF BreakpointLt(point.x, breakpoint_left) THEN go_left
             ELSE IF BreakpointGt(point.x, breakpoint_right) THEN go_right
             ELSE [arc |-> current_arc, panic |-> NoPanic]

locate_arc_above(b, d, point, y) == locate_from(b, d, point, y, b.root)

(***************************************************************************)
(* boundingbox.rs.  A BoundingBox is [left, right, top, bottom]; a Side is *)
(* "Left", "Right", "Top", "Bottom" or "SideNone" (Side::None).            *)
(***************************************************************************)
BoundingBox(left, right, top, bottom) ==
    [left |-> left, right |-> right, top |-> top, bottom |-> bottom]

\* a successor that goes from Left back to Top
SideNextBackwards(side) ==
    CASE side = "Left" -> "Top"
      [] side = "Top" -> "Left"
      [] side = "Right" -> "Top"
      [] side = "Bottom" -> "Right"
      [] OTHER -> "SideNone"

SideNext(side) ==
    CASE side = "Left" -> "Bottom"
      [] side = "Top" -> "Left"
      [] side = "Right" -> "Top"
      [] side = "Bottom" -> "Right"
      [] OTHER -> "SideNone"

contains(box, point) ==
    /\ FGe(point.x, box.left)
    /\ FLe(point.x, box.right)
    /\ FGe(point.y, box.top)
    /\ FLe(point.y, box.bottom)

\* f64::MAX and f64::MIN: finite, and beyond every other finite value
F64Max == [k |-> "num", n |-> 1048576, d |-> 1]
F64Min == [k |-> "num", n |-> -1048576, d |-> 1]

\* t2.abs() < t1.abs(), where f64::MAX and f64::MIN are compared as the
\* largest finite magnitude
AbsLt(t2, t1) ==
    IF IsNaN(t1) \/ IsNaN(t2) THEN FALSE
    ELSE IF t1 \in {F64Max, F64Min} THEN IsFinite(t2) /\ t2 \notin {F64Max, F64Min}
    ELSE IF t2 \in {F64Max, F64Min} THEN IsInf(t1)
    ELSE FLt(FAbs(t2), FAbs(t1))

\* get_intersection: [point, side, panic]; the assertion fails when the
\* origin is outside the box
get_intersection(box, origin, direction) ==
    LET r1 == IF FLt(direction.x, Zero)
              THEN [t |-> FDiv(FSub(box.right, origin.x), direction.x), side |-> "Right"]
              ELSE IF FGt(direction.x, Zero)
              THEN [t |-> FDiv(FSub(box.left, origin.x), direction.x), side |-> "Left"]
              ELSE [t |-> F64Min, side |-> "SideNone"]
        r2 == IF FGt(direction.y, Zero)
              THEN [t |-> FDiv(FSub(box.top, origin.y), direction.y), side |-> "Top"]
              ELSE IF FLt(direction.y, Zero)
              THEN [t |-> FDiv(FSub(box.bottom, origin.y), direction.y), side |-> "Bottom"]
              ELSE [t |-> F64Max, side |-> "SideNone"]
        r == IF AbsLt(r2.t, r1.t) THEN r2 ELSE r1
    IN  IF ~contains(box, origin)
        THEN [point |-> origin, side |-> "SideNone",
              panic |-> "get_intersection: assertion failed: self.contains(origin)"]
        ELSE [point |-> VAdd(origin, VMul(direction, r.t)), side |-> r.side,
              panic |-> NoPanic]

IsCorner(side_1, side_2) ==
    /\ {side_1, side_2} \subseteq {"Left", "Right", "Top", "Bottom"}
    /\ {side_1, side_2} \cap {"Top", "Bottom"} # {}
    /\ {side_1, side_2} \cap {"Left", "Right"} # {}

\* get_corner, for sides IsCorner holds of (the code panics on the others)
get_corner(box, side_1, side_2) ==
    Vec(IF "Left" \in {side_1, side_2} THEN box.left ELSE box.right,
        IF "Top" \in {side_1, side_2} THEN box.top ELSE box.bottom)

\* get_intersections: the sequence of [point, side]
get_intersections(box, origin, destination) ==
    LET direction == VSub(destination, origin)
        At(t) == VAdd(origin, VMul(direction, t))
        InT(t) == FGt(t, Zero) /\ FLt(t, One)
        tl == FDiv(FSub(box.left, origin.x), direction.x)
        tr == FDiv(FSub(box.right, origin.x), direction.x)
        tt == FDiv(FSub(box.top, origin.y), direction.y)
        tb == FDiv(FSub(box.bottom, origin.y), direction.y)
        InY(p) == FGe(p.y, box.top) /\ FLe(p.y, box.bottom)
        InX(p) == FLe(p.x, box.right) /\ FGe(p.x, box.left)
        l == IF (FLt(origin.x, box.left) \/ FLt(destination.x, box.left))
                /\ InT(tl) /\ InY(At(tl))
             THEN <<[point |-> At(tl), side |-> "Left"]>> ELSE <<>>
        r == IF (FGt(origin.x, box.right) \/ FGt(destination.x, box.right))
                /\ InT(tr) /\ InY(At(tr))
             THEN <<[point |-> At(tr), side |-> "Right"]>> ELSE <<>>
        t == IF (FLt(origin.y, box.top) \/ FLt(destination.y, box.top))
                /\ InT(tt) /\ InX(At(tt))
             THEN <<[point |-> At(tt), side |-> "Top"]>> ELSE <<>>
        b == IF (FGt(origin.y, box.bottom) \/ FGt(destination.y, box.bottom))
                /\ InT(tb) /\ InX(At(tb))
             THEN <<[point |-> At(tb), side |-> "Bottom"]>> ELSE <<>>
    IN  l \o r \o t \o b

(***************************************************************************)
(* link_vertices: [d, panic].  The loop ends when the walk over the sides  *)
(* reaches end_side; it asks get_corner for an invalid corner when side is *)
(* Side::None, and never ends when end_side is Side::None.                 *)
(***************************************************************************)
\* one turn of the loop of link_vertices: the new half-edge is
\* d.half_edge_count + 1, the new corner vertex d.vertex_count + 1
link_corner(box, d, incident_face, edge, side) ==
    LET new_edge == d.half_edge_count + 1
        destination == d.vertex_count + 1
    IN  set_half_edge_destination(
            add_vertex(
                set_half_edge_origin(
                    link_half_edges(add_half_edge(d, incident_face), edge, new_edge),
                    new_edge, d.half_edges[edge].destination),
                get_corner(box, side, SideNext(side))),
            new_edge, destination)

RECURSIVE link_vertices_loop(_, _, _, _, _, _, _)
link_vertices_loop(box, d, incident_face, edge, side, end_side, steps) ==
    IF side = end_side THEN [d |-> d, edge |-> edge, panic |-> NoPanic]
    ELSE IF ~IsCorner(side, SideNext(side))
    THEN [d |-> d, edge |-> edge, panic |-> "Invalid corner sides"]
    ELSE IF steps >= 4
    THEN [d |-> d, edge |-> edge, panic |-> "link_vertices: does not terminate"]
    ELSE link_vertices_loop(box, link_corner(box, d, incident_face, edge, side),
                            incident_face, d.half_edge_count + 1, SideNext(side),
                            end_side, steps + 1)

\* link_vertices after the loop, lines 339 to 343
link_last(d, incident_face, edge, end_edge) ==
    LET new_edge == d.half_edge_count + 1
    IN  set_half_edge_destination(
            set_half_edge_origin(
                link_half_edges(
                    link_half_edges(add_half_edge(d, incident_face), edge, new_edge),
                    new_edge, end_edge),
                new_edge, d.half_edges[edge].destination),
            new_edge, d.half_edges[end_edge].origin)

\* l is the state at the end of the loop
link_end(l, incident_face, end_edge) ==
    IF l.panic # NoPanic THEN [d |-> l.d, panic |-> l.panic]
    ELSE [d |-> link_last(l.d, incident_face, l.edge, end_edge), panic |-> NoPanic]

link_vertices(box, d, start_edge, start_side, end_edge, end_side) ==
    link_end(link_vertices_loop(box, d, d.half_edges[start_edge].incident_face,
                                start_edge, start_side, end_side, 0),
             d.half_edges[start_edge].incident_face, end_edge)

(***************************************************************************)
(* intersect_diagram.  The state of the pass is                            *)
(* [d, vertices_to_remove, half_edges_to_remove, processed_half_edges,     *)
(*  outgoing_half_edge, outgoing_side, incoming_half_edge, incoming_side,  *)
(*  panic]; panic names the unwrap or panic! that ended the pass.          *)
(***************************************************************************)
ClipPanic(c, msg) == [c EXCEPT !.panic = msg]

\* l is what link_vertices returned inside the pass
ClipLinked(c, l) == [c EXCEPT !.d = l.d, !.panic = l.panic]

SingleIntersectionPanic ==
    "An edge that begins inside the box but ends outside can only have a single intersection"

\* half_edge_twin.is_some() && processed_half_edges.contains(..)
twin_processed(c, half_edge) ==
    /\ c.d.half_edges[half_edge].twin # None
    /\ c.d.half_edges[half_edge].twin \in c.processed_half_edges

\* lines 214 to 222 and 283 to 291: the link from the outgoing half-edge
clip_link_outgoing(box, c, half_edge, side) ==
    IF c.outgoing_half_edge # None
    THEN ClipLinked(c, link_vertices(box, c.d, c.outgoing_half_edge, c.outgoing_side,
                                     half_edge, side))
    ELSE c

\* lines 248 to 256: the link to the incoming half-edge
clip_link_incoming(box, c, half_edge, side) ==
    IF c.incoming_half_edge # None
    THEN ClipLinked(c, link_vertices(box, c.d, half_edge, side,
                                     c.incoming_half_edge, c.incoming_side))
    ELSE c

clip_set_outgoing(c, half_edge, side) ==
    IF c.panic # NoPanic THEN c
    ELSE [c EXCEPT !.outgoing_half_edge = half_edge, !.outgoing_side = side,
                   !.processed_half_edges = @ \cup {half_edge}]

clip_set_incoming(c, half_edge, side) ==
    IF c.panic # NoPanic THEN c
    ELSE [c EXCEPT !.incoming_half_edge = half_edge, !.incoming_side = side,
                   !.processed_half_edges = @ \cup {half_edge}]

\* lines 183 to 192: both points outside, no intersection
clip_outside(c, face, half_edge) ==
    [c EXCEPT
        !.vertices_to_remove = Append(@, c.d.half_edges[half_edge].origin),
        !.d = IF half_edge = c.d.faces[face].outer_component
              THEN set_face_outer_component(c.d, face, c.d.half_edges[half_edge].next)
              ELSE c.d,
        !.half_edges_to_remove = Append(@, half_edge)]

\* lines 196 to 213: the ends of an edge that crosses the box twice
clip_cross_ends(c, half_edge, intersections) ==
    LET d == c.d
        half_edge_twin == d.half_edges[half_edge].twin
    IN  IF twin_processed(c, half_edge)
        THEN set_half_edge_destination(
                 set_half_edge_origin(d, half_edge,
                                      d.half_edges[half_edge_twin].destination),
                 half_edge, d.half_edges[half_edge_twin].origin)
        ELSE set_half_edge_destination(
                 set_half_edge_origin(
                     add_vertex(add_vertex(d, intersections[1].point),
                                intersections[2].point),
                     half_edge, d.vertex_count + 1),
                 half_edge, d.vertex_count + 2)

\* lines 195 to 225: both points outside, two intersections
clip_cross(box, c, half_edge, intersections) ==
    clip_set_outgoing(
        clip_link_outgoing(
            box,
            [c EXCEPT !.vertices_to_remove = Append(@, c.d.half_edges[half_edge].origin),
                      !.d = clip_cross_ends(c, half_edge, intersections)],
            half_edge, intersections[1].side),
        half_edge, intersections[2].side)

\* lines 236 to 247: the destination of an edge that goes outside
clip_out_end(c, half_edge, intersections) ==
    IF twin_processed(c, half_edge)
    THEN set_half_edge_destination(
             c.d, half_edge, c.d.half_edges[c.d.half_edges[half_edge].twin].origin)
    ELSE set_half_edge_destination(add_vertex(c.d, intersections[1].point),
                                   half_edge, c.d.vertex_count + 1)

\* lines 236 to 259: the edge is going outside the box
clip_out(box, c, half_edge, intersections) ==
    clip_set_outgoing(
        clip_link_incoming(
            box, [c EXCEPT !.d = clip_out_end(c, half_edge, intersections)],
            half_edge, intersections[1].side),
        half_edge, intersections[1].side)

\* an origin that is a new vertex even when the twin has been clipped
clip_in_end_new_vertex(c, half_edge, intersections) ==
    set_half_edge_origin(add_vertex(c.d, intersections[1].point),
                         half_edge, c.d.vertex_count + 1)

\* lines 271 to 282: the origin of an edge that comes into the box
clip_in_end(c, half_edge, intersections) ==
    IF twin_processed(c, half_edge)
    THEN set_half_edge_origin(
             c.d, half_edge,
             c.d.half_edges[c.d.half_edges[half_edge].twin].destination)
    ELSE set_half_edge_origin(add_vertex(c.d, intersections[1].point),
                              half_edge, c.d.vertex_count + 1)

\* lines 270 to 294: the edge is coming into the box
clip_in(box, c, half_edge, intersections) ==
    clip_set_incoming(
        clip_link_outgoing(
            box,
            [c EXCEPT !.vertices_to_remove = Append(@, c.d.half_edges[half_edge].origin),
                      !.d = clip_in_end(c, half_edge, intersections)],
            half_edge, intersections[1].side),
        half_edge, intersections[1].side)

\* lines 174 to 303: the cases of an edge with an end outside the box
clip_cases(box, c, face, half_edge, inside, next_inside, intersections) ==
    IF inside /\ next_inside THEN c
    ELSE IF ~inside /\ ~next_inside
    THEN IF Len(intersections) = 0 THEN clip_outside(c, face, half_edge)
         ELSE IF Len(intersections) = 2
         THEN clip_cross(box, c, half_edge, intersections)
         ELSE ClipPanic(c, SingleIntersectionPanic)
    ELSE IF inside /\ ~next_inside
    THEN IF Len(intersections) = 1 THEN clip_out(box, c, half_edge, intersections)
         ELSE ClipPanic(c, SingleIntersectionPanic)
    ELSE IF Len(intersections) = 1 THEN clip_in(box, c, half_edge, intersections)
         ELSE ClipPanic(c, SingleIntersectionPanic)

\* the body of the loop for one half-edge, lines 167 to 303
clip_half_edge(box, c, face, half_edge) ==
    LET he == c.d.half_edges[half_edge]
    IN  IF he.origin = None
        THEN ClipPanic(c, "intersect_diagram: get_half_edge_origin is None")
        ELSE IF he.destination = None
        THEN ClipPanic(c, "intersect_diagram: get_half_edge_destination is None")
        ELSE IF he.next = None
        THEN ClipPanic(c, "intersect_diagram: get_half_edge_next is None")
        ELSE clip_cases(box, c, face, half_edge,
                        contains(box, get_vertex_point(c.d, he.origin)),
                        contains(box, get_vertex_point(c.d, he.destination)),
                        get_intersections(box, get_vertex_point(c.d, he.origin),
                                          get_vertex_point(c.d, he.destination)))

\* the loop over the half-edges of one face: the walk reads next before the
\* body relinks, so more steps than there were half-edges mean that it never
\* comes back to start_half_edge
RECURSIVE clip_face_loop(_, _, _, _, _, _)
RECURSIVE clip_face_next(_, _, _, _, _, _)
clip_face_loop(box, c, face, start_half_edge, half_edge, steps) ==
    clip_face_next(box, clip_half_edge(box, c, face, half_edge), face,
                   start_half_edge, c.d.half_edges[half_edge].next, steps)

\* lines 304 to 308, c the state after the body
clip_face_next(box, c, face, start_half_edge, next_half_edge, steps) ==
    IF c.panic # NoPanic THEN c
    ELSE IF next_half_edge = start_half_edge THEN c
    ELSE IF steps = 0 THEN ClipPanic(c, "intersect_diagram: does not terminate")
    ELSE clip_face_loop(box, c, face, start_half_edge, next_half_edge, steps - 1)

\* lines 159 to 165: the locals of the loop over the faces
clip_face_start(c) ==
    [c EXCEPT !.outgoing_half_edge = None, !.outgoing_side = "SideNone",
              !.incoming_half_edge = None, !.incoming_side = "SideNone"]

RECURSIVE clip_faces(_, _, _)
clip_faces(box, c, face) ==
    IF face > Len(c.d.faces) \/ c.panic # NoPanic THEN c
    ELSE IF c.d.faces[face].outer_component = None
    THEN ClipPanic(c, "intersect_diagram: get_face_outer_component is None")
    ELSE clip_faces(box,
                    clip_face_loop(box, clip_face_start(c), face,
                                   c.d.faces[face].outer_component,
                                   c.d.faces[face].outer_component,
                                   c.d.half_edge_count),
                    face + 1)

RECURSIVE remove_half_edges(_, _)
remove_half_edges(d, keys) ==
    IF keys = <<>> THEN d
    ELSE remove_half_edges(remove_half_edge(d, Head(keys)), Tail(keys))

RECURSIVE remove_vertices(_, _)
remove_vertices(d, keys) ==
    IF keys = <<>> THEN d
    ELSE remove_vertices(remove_vertex(d, Head(keys)), Tail(keys))

\* lines 311 to 316, c the state after the loop over the faces
clip_remove(c) ==
    IF c.panic # NoPanic THEN [d |-> c.d, panic |-> c.panic]
    ELSE [d |-> remove_vertices(remove_half_edges(c.d, c.half_edges_to_remove),
                                c.vertices_to_remove),
          panic |-> NoPanic]

\* intersect_diagram: [d, panic]
intersect_diagram(box, d) ==
    clip_remove(clip_faces(box,
                           [d |-> d, vertices_to_remove |-> <<>>,
                            half_edges_to_remove |-> <<>>, processed_half_edges |-> {},
                            outgoing_half_edge |-> None, outgoing_side |-> "SideNone",
                            incoming_half_edge |-> None, incoming_side |-> "SideNone",
                            panic |-> NoPanic],
                           1))

(***************************************************************************)
(* complete_edges: [d, records, panic].  One record per pair of adjacent   *)
(* arcs of the final beachline: the half-edge that arrives at the box      *)
(* (right.left_half_edge), the half-edge that departs from it              *)
(* (left.right_half_edge) and the side of the box that was hit.            *)
(***************************************************************************)
\* a pass that gives the new vertex to the departing half-edge only
complete_edge_origin_only(d, records, departing, arriving, intersection) ==
    IF intersection.panic # NoPanic
    THEN [d |-> d, records |-> records, panic |-> intersection.panic]
    ELSE [d |-> set_half_edge_origin(add_vertex(d, intersection.point), departing,
                                     d.vertex_count + 1),
          records |-> Append(records, [arriving |-> arriving, departing |-> departing,
                                       side |-> intersection.side]),
          panic |-> NoPanic]

\* lines 183 to 194 for one pair of arcs: intersection is what
\* get_intersection returned, the new vertex is d.vertex_count + 1
complete_edge(d, records, departing, arriving, intersection) ==
    IF intersection.panic # NoPanic
    THEN [d |-> d, records |-> records, panic |-> intersection.panic]
    ELSE IF departing = None
    THEN [d |-> add_vertex(d, intersection.point), records |-> records,
          panic |-> "complete_edges: get_right_half_edge is None"]
    ELSE IF arriving = None
    THEN [d |-> set_half_edge_origin(add_vertex(d, intersection.point), departing,
                                     d.vertex_count + 1),
          records |-> records,
          panic |-> "complete_edges: get_left_half_edge is None"]
    ELSE [d |-> set_half_edge_destination(
                    set_half_edge_origin(add_vertex(d, intersection.point), departing,
                                         d.vertex_count + 1),
                    arriving, d.vertex_count + 1),
          records |-> Append(records, [arriving |-> arriving, departing |-> departing,
                                       side |-> intersection.side]),
          panic |-> NoPanic]

\* the ray of the breakpoint between two sites, cut by the box
complete_intersection(box, left_point, right_point) ==
    get_intersection(box, VMul(VAdd(left_point, right_point), Half),
                     get_orthogonal(VSub(left_point, right_point)))

RECURSIVE complete_edges_loop(_, _, _, _)
RECURSIVE complete_edges_next(_, _, _, _)
\* c is [d, records, panic]
complete_edges_loop(b, box, c, left_arc) ==
    LET right_arc == b.arcs[left_arc].next
    IN  IF right_arc = None THEN c
        ELSE complete_edges_next(
                 b, box,
                 complete_edge(c.d, c.records, b.arcs[left_arc].right_half_edge,
                               b.arcs[right_arc].left_half_edge,
                               complete_intersection(
                                   box, get_face_point(c.d, b.arcs[left_arc].site),
                                   get_face_point(c.d, b.arcs[right_arc].site))),
                 right_arc)

complete_edges_next(b, box, c, right_arc) ==
    IF c.panic # NoPanic THEN c ELSE complete_edges_loop(b, box, c, right_arc)

\* walking prev back from half_edge to the edge whose prev is null; None
\* when the walk does not end
RECURSIVE chain_start(_, _, _)
chain_start(d, half_edge, steps) ==
    IF d.half_edges[half_edge].prev = None THEN half_edge
    ELSE IF steps = 0 THEN None
    ELSE chain_start(d, d.half_edges[half_edge].prev, steps - 1)

\* the side recorded for the departing half-edge g
departing_side(records, g) ==
    IF \E i \in 1..Len(records) : records[i].departing = g
    THEN records[CHOOSE i \in 1..Len(records) : records[i].departing = g].side
    ELSE "SideNone"

\* the stitching of the corners, one open-front record after the other:
\* the arriving half-edge h is linked to g, the start of its chain
RECURSIVE stitch_corners(_, _, _, _)
RECURSIVE stitch_next(_, _, _, _)
stitch_record(box, d, records, i, g) ==
    IF g = None THEN [d |-> d, panic |-> "complete_edges: does not terminate"]
    ELSE link_vertices(box, d, records[i].arriving, records[i].side, g,
                       departing_side(records, g))

stitch_corners(box, d, records, i) ==
    IF i > Len(records) THEN [d |-> d, panic |-> NoPanic]
    ELSE stitch_next(box,
                     stitch_record(box, d, records, i,
                                   chain_start(d, records[i].arriving,
                                               d.half_edge_count)),
                     records, i)

stitch_next(box, l, records, i) ==
    IF l.panic # NoPanic THEN l ELSE stitch_corners(box, l.d, records, i + 1)

\* c is what the loop over the pairs of arcs returned
complete_stitch(box, c) ==
    IF c.panic # NoPanic THEN [d |-> c.d, panic |-> c.panic]
    ELSE stitch_corners(box, c.d, c.records, 1)

\* a complete_edges that unwraps the root without asking has_root first
complete_edges_unwrap_root(b, box, d) ==
    IF has_root(b)
    THEN complete_stitch(box,
                         complete_edges_loop(b, box,
                                             [d |-> d, records |-> <<>>,
                                              panic |-> NoPanic],
                                             get_leftmost_arc(b, b.root)))
    ELSE [d |-> d, panic |-> "complete_edges: root is None"]

complete_edges(b, box, d) ==
    IF has_root(b)
    THEN complete_stitch(box,
                         complete_edges_loop(b, box,
                                             [d |-> d, records |-> <<>>,
                                              panic |-> NoPanic],
                                             get_leftmost_arc(b, b.root)))
    ELSE [d |-> d, panic |-> NoPanic]

(***************************************************************************)
(* voronoi_builder.rs.  The state of a build is                            *)
(* [queue, event_count, beachline, diagram, panic, rounding]: event_count *)
(* numbers the events pushed so far, panic names the unwrap or panic! that *)
(* ended the build, and rounding is the rounding of the ys that the        *)
(* handler under way computes.                                             *)
(***************************************************************************)
BuildPanic(w, msg) == [w EXCEPT !.panic = msg]

\* the queue the event was removed from is not the queue of the build
event_deleted_elsewhere(w, r) == w

\* r is what the removal from the queue returned
event_deleted(w, r) ==
    IF r.ok THEN [w EXCEPT !.queue = r.queue]
    ELSE BuildPanic(w, "remove_event: index out of bounds")

\* a delete_event that leaves the event of the arc in the queue
delete_event_skipped(w, arc) == w

delete_event(w, arc) ==
    IF w.panic # NoPanic THEN w
    ELSE event_deleted(w, delete_event_handle(w.queue, w.beachline.arcs[arc].event))

is_moving_right(left, right) == FGt(left.y, right.y)

get_initial_x(left, right, moving_right) == IF moving_right THEN left.x ELSE right.x

\* lines 147 to 156
is_valid(left_point, middle_point, right_point, center) ==
    LET left_breakpoint_moving_right == is_moving_right(left_point, middle_point)
        right_breakpoint_moving_right == is_moving_right(middle_point, right_point)
        left_initial_x == get_initial_x(left_point, middle_point,
                                        left_breakpoint_moving_right)
        right_initial_x == get_initial_x(middle_point, right_point,
                                         right_breakpoint_moving_right)
    IN  /\ \/ left_breakpoint_moving_right /\ FLe(left_initial_x, center.x)
           \/ ~left_breakpoint_moving_right /\ FGe(left_initial_x, center.x)
        /\ \/ right_breakpoint_moving_right /\ FLe(right_initial_x, center.x)
           \/ ~right_breakpoint_moving_right /\ FGe(right_initial_x, center.x)

\* an add_event without the test of line 146 on the y of the event
add_event_unguarded(w, left_point, middle_point, right_point, middle_arc, current_y, center) ==
    IF is_valid(left_point, middle_point, right_point, center)
    THEN [w EXCEPT
            !.queue = add_event_to_queue(@,
                          CircleEvent(w.event_count + 1,
                                      AddSqrt(center.y, Distance2(center, middle_point)),
                                      Len(@), center, middle_arc)),
            !.event_count = @ + 1,
            !.beachline = set_arc_event(@, middle_arc, w.event_count + 1)]
    ELSE w

\* lines 143 to 162, center the circumcircle center; the event pushed is
\* w.event_count + 1, its y rounded as w.rounding says
add_event_at(w, left_point, middle_point, right_point, middle_arc, current_y, center) ==
    IF /\ YGtMinusEpsilon(AddSqrt(center.y, Distance2(center, middle_point)), current_y)
       /\ is_valid(left_point, middle_point, right_point, center)
    THEN [w EXCEPT
            !.queue = add_event_to_queue(@,
                          CircleEvent(w.event_count + 1,
                                      Rounded(AddSqrt(center.y,
                                                      Distance2(center, middle_point)),
                                              current_y, w.rounding),
                                      Len(@), center, middle_arc)),
            !.event_count = @ + 1,
            !.beachline = set_arc_event(@, middle_arc, w.event_count + 1)]
    ELSE w

\* lines 139 to 142, the points of the three arcs
add_event_points(w, left_point, middle_point, right_point, middle_arc, current_y) ==
    add_event_at(w, left_point, middle_point, right_point, middle_arc, current_y,
                 compute_circumcircle_center(left_point, middle_point, right_point))

\* an add_event that gives the event to the left arc of the three
add_event_to_left_arc(w, left_arc, middle_arc, right_arc, current_y) ==
    add_event_points(w, get_face_point(w.diagram, w.beachline.arcs[left_arc].site),
                     get_face_point(w.diagram, w.beachline.arcs[middle_arc].site),
                     get_face_point(w.diagram, w.beachline.arcs[right_arc].site),
                     left_arc, current_y)

add_event(w, left_arc, middle_arc, right_arc, current_y) ==
    add_event_points(w, get_face_point(w.diagram, w.beachline.arcs[left_arc].site),
                     get_face_point(w.diagram, w.beachline.arcs[middle_arc].site),
                     get_face_point(w.diagram, w.beachline.arcs[right_arc].site),
                     middle_arc, current_y)

\* handle_site_event, lines 76 to 89: the arc is broken and the new edge
\* added; middle_arc is w.beachline.arc_count + 1
site_break(w, face, arc_to_break) ==
    [w EXCEPT !.beachline = break_arc(@, arc_to_break, face)]

site_edge(w, middle_arc) ==
    LET left_arc == w.beachline.arcs[middle_arc].prev
        right_arc == w.beachline.arcs[middle_arc].next
        half_edge_1 == w.diagram.half_edge_count + 1
        half_edge_2 == w.diagram.half_edge_count + 2
    IN  [w EXCEPT
            !.diagram = add_edge(@, w.beachline.arcs[left_arc].site,
                                 w.beachline.arcs[middle_arc].site),
            !.beachline =
                set_left_half_edge(
                    set_right_half_edge(
                        set_left_half_edge(
                            set_right_half_edge(@, left_arc, half_edge_1),
                            middle_arc, half_edge_2),
                        middle_arc, half_edge_2),
                    right_arc, half_edge_1)]

\* handle_site_event, lines 92 to 103
site_check_left(w, middle_arc, current_y) ==
    LET left_arc == w.beachline.arcs[middle_arc].prev
        prev_arc == w.beachline.arcs[left_arc].prev
    IN  IF prev_arc # None
        THEN add_event(w, prev_arc, left_arc, middle_arc, current_y)
        ELSE w

\* handle_site_event, lines 104 to 115
site_check_right(w, middle_arc, current_y) ==
    LET right_arc == w.beachline.arcs[middle_arc].next
        next_arc == w.beachline.arcs[right_arc].next
    IN  IF next_arc # None
        THEN add_event(w, middle_arc, right_arc, next_arc, current_y)
        ELSE w

\* steps 3 to 5 of handle_site_event, w the state after delete_event
break_and_check(w, face, arc_to_break, current_y) ==
    IF w.panic # NoPanic THEN w
    ELSE site_check_right(
             site_check_left(
                 site_edge(site_break(w, face, arc_to_break),
                           w.beachline.arc_count + 1),
                 w.beachline.arc_count + 1, current_y),
             w.beachline.arc_count + 1, current_y)

\* step 2 of handle_site_event, located what locate_arc_above returned
site_located(w, face, located, current_y) ==
    IF located.panic # NoPanic THEN BuildPanic(w, located.panic)
    ELSE break_and_check(delete_event(w, located.arc), face, located.arc, current_y)

handle_site_event(w, face, current_y) ==
    IF ~has_root(w.beachline)
    THEN [w EXCEPT !.beachline = create_root(@, face)]
    ELSE site_located(w, face,
                      locate_arc_above(w.beachline, w.diagram,
                                       get_face_point(w.diagram, face), current_y.a),
                      current_y)

\* remove_arc, lines 226 to 250: the diagram; the new half-edges are
\* d.half_edge_count + 1 and + 2
remove_arc_edges(d, vertex, left_half_edge, right_half_edge, prev_right_half_edge, next_left_half_edge, prev_face, next_face) ==
    LET half_edge_1 == d.half_edge_count + 1
        half_edge_2 == d.half_edge_count + 2
    IN  link_half_edges(
         link_half_edges(
          set_half_edge_origin(
           set_half_edge_destination(
            add_edge(
             link_half_edges(
              set_half_edge_destination(
               set_half_edge_origin(
                set_half_edge_destination(
                 set_half_edge_origin(d, prev_right_half_edge, vertex),
                 left_half_edge, vertex),
                right_half_edge, vertex),
               next_left_half_edge, vertex),
              left_half_edge, right_half_edge),
             prev_face, next_face),
            half_edge_1, vertex),
           half_edge_2, vertex),
          half_edge_1, prev_right_half_edge),
         next_left_half_edge, half_edge_2)

\* remove_arc of the builder; the arcs prev and next exist
remove_arc(w, arc, vertex) ==
    LET b == w.beachline
        prev == b.arcs[arc].prev
        next == b.arcs[arc].next
        left_half_edge == b.arcs[arc].left_half_edge
        right_half_edge == b.arcs[arc].right_half_edge
        prev_right_half_edge == b.arcs[prev].right_half_edge
        next_left_half_edge == b.arcs[next].left_half_edge
    IN  IF w.panic # NoPanic THEN w
        ELSE IF left_half_edge = None
        THEN BuildPanic(w, "remove_arc: get_left_half_edge(arc) is None")
        ELSE IF right_half_edge = None
        THEN BuildPanic(w, "remove_arc: get_right_half_edge(arc) is None")
        ELSE IF prev_right_half_edge = None
        THEN BuildPanic(w, "remove_arc: get_right_half_edge(prev) is None")
        ELSE IF next_left_half_edge = None
        THEN BuildPanic(w, "remove_arc: get_left_half_edge(next) is None")
        ELSE [w EXCEPT
                !.beachline =
                    remove_arc_from_beachline(
                        set_left_half_edge(
                            set_right_half_edge(@, prev, w.diagram.half_edge_count + 1),
                            next, w.diagram.half_edge_count + 2),
                        arc),
                !.diagram = remove_arc_edges(@, vertex, left_half_edge, right_half_edge,
                                             prev_right_half_edge, next_left_half_edge,
                                             b.arcs[prev].site, b.arcs[next].site)]

\* handle_circle_event, lines 187 to 198
circle_check_left(w, left_arc, right_arc, y) ==
    LET left_arc_prev == w.beachline.arcs[left_arc].prev
    IN  IF w.panic # NoPanic THEN w
        ELSE IF left_arc_prev # None
        THEN add_event(w, left_arc_prev, left_arc, right_arc, y)
        ELSE w

\* handle_circle_event, lines 199 to 210
circle_check_right(w, left_arc, right_arc, y) ==
    LET right_arc_next == w.beachline.arcs[right_arc].next
    IN  IF w.panic # NoPanic THEN w
        ELSE IF right_arc_next # None
        THEN add_event(w, left_arc, right_arc, right_arc_next, y)
        ELSE w

\* steps 2 to 4 of handle_circle_event, the neighbours of the arc found
remove_and_check(w, arc, vertex, left_arc, right_arc, y) ==
    circle_check_right(
        circle_check_left(
            remove_arc(delete_event(delete_event(w, left_arc), right_arc), arc, vertex),
            left_arc, right_arc, y),
        left_arc, right_arc, y)

\* w is the state after add_vertex, vertex the new vertex
circle_vertex_added(w, arc, vertex, y) ==
    IF arc \notin DOMAIN w.beachline.arcs
    THEN BuildPanic(w, "handle_circle_event: the arc is not in the beachline")
    ELSE IF w.beachline.arcs[arc].prev = None
    THEN BuildPanic(w, "handle_circle_event: get_prev(arc) is None")
    ELSE IF w.beachline.arcs[arc].next = None
    THEN BuildPanic(w, "handle_circle_event: get_next(arc) is None")
    ELSE remove_and_check(w, arc, vertex, w.beachline.arcs[arc].prev,
                          w.beachline.arcs[arc].next, y)

handle_circle_event(w, point, arc, y) ==
    circle_vertex_added([w EXCEPT !.diagram = add_vertex(@, point)], arc,
                        w.diagram.vertex_count + 1, y)

handle_event(w, event) ==
    IF event.kind = "site" THEN handle_site_event(w, event.face, event.y)
    ELSE handle_circle_event(w, event.point, event.arc, event.y)

\* the bounds of bound_diagram: the unit square grown to the vertices
RECURSIVE diagram_bounds(_, _, _)
diagram_bounds(d, box, keys) ==
    IF keys = {} THEN box
    ELSE LET vertex == CHOOSE k \in keys : TRUE
             point == get_vertex_point(d, vertex)
         IN  diagram_bounds(d,
                            BoundingBox(FMin(box.left, point.x), FMax(box.right, point.x),
                                        FMin(box.top, point.y), FMax(box.bottom, point.y)),
                            keys \ {vertex})

\* bound_diagram: [d, panic]
bound_diagram(d, b) ==
    complete_edges(b, diagram_bounds(d, BoundingBox(Zero, One, Zero, One),
                                     DOMAIN d.vertices),
                   d)

\* the sites pushed by build_voronoi, face by face
RECURSIVE push_site_events(_, _, _)
push_site_events(q, d, face) ==
    IF face > Len(d.faces) THEN q
    ELSE push_site_events(
             add_event_to_queue(q, SiteEvent(face, Plain(get_face_point(d, face).y),
                                             Len(q), face)),
             d, face + 1)

RECURSIVE add_faces(_, _)
add_faces(d, points) ==
    IF points = <<>> THEN d ELSE add_faces(add_face(d, Head(points)), Tail(points))

\* build_voronoi up to the loop
start_build(points) ==
    LET d == add_faces(EmptyDiagram, points)
    IN  [queue |-> push_site_events(<<>>, d, 1), event_count |-> Len(points),
         beachline |-> EmptyBeachline, diagram |-> d, panic |-> NoPanic,
         rounding |-> 0]

(***************************************************************************)
(* Bounds.                                                                 *)
(***************************************************************************)
\* the sites lie on the grid {0, 1/GridSize, ..., 1} x {0, 1/GridSize, ..., 1}
GridSize == 2
\* the largest number of sites of an input
MaxSites == 4
\* the largest number of events the queue harness pushes
MaxEvents == 4
\* the ys the queue harness pushes are 0..MaxY
MaxY == 2

Grid == {Vec(Num(i, GridSize), Num(j, GridSize)) : i, j \in 0..GridSize}

Inputs == UNION {[1..n -> Grid] : n \in 0..MaxSites}

(***************************************************************************)
(* The state.  pc is the position in build_voronoi ("start", "loop",       *)
(* "clip", "done", or "panic" once the build has panicked), or "queue" in  *)
(* the harness that drives an EventQueue alone.  points is the input;      *)
(* queue, event_count, beachline, diagram and panic are the state of the   *)
(* build.  log is history: the events popped so far, the ys popped since   *)
(* the last push, the handles removed, the last queue operation, and the   *)
(* number of half-edges at the end of the sweep and of the completion.     *)
(* typed_vec and issued are a TypedVec (typedvector.rs) and the keys its    *)
(* insert has returned; segment and intersections are the arguments and    *)
(* the result of a call of get_intersections; edges is what get_edges of   *)
(* delauney.rs returned for the diagram; breakpoint is a call of           *)
(* compute_breakpoint, its arguments and its result; clip is the state of  *)
(* the pass of intersect_diagram (its diagram and its locals); iterator is *)
(* an EdgeIterator of diagram.rs with the half-edges it has yielded.       *)
(* These eight are only used by the specifications that drive one of these *)
(* alone.                                                                  *)
(***************************************************************************)
VARIABLES pc, points, queue, event_count, beachline, diagram, panic, log,
          typed_vec, issued, segment, intersections, edges, breakpoint, clip,
          iterator

vars == <<pc, points, queue, event_count, beachline, diagram, panic, log,
          typed_vec, issued, segment, intersections, edges, breakpoint, clip,
          iterator>>

\* no segment has been given to get_intersections
NoSegment == [origin |-> NoPoint, destination |-> NoPoint]

\* compute_breakpoint has not been called
NoBreakpoint == [point1 |-> NoPoint, point2 |-> NoPoint, y |-> Zero, result |-> BVal(Zero)]

\* intersect_diagram is not running
NoClip ==
    [d |-> EmptyDiagram, vertices_to_remove |-> <<>>, half_edges_to_remove |-> <<>>,
     processed_half_edges |-> {}, outgoing_half_edge |-> None,
     outgoing_side |-> "SideNone", incoming_half_edge |-> None,
     incoming_side |-> "SideNone", panic |-> NoPanic]

\* no EdgeIterator has been made
NoIterator == [start_edge |-> None, current_edge |-> None, yielded |-> <<>>]

\* the TypedVec, get_intersections, get_edges, compute_breakpoint, the pass of
\* intersect_diagram and the EdgeIterator are not in use
Unused ==
    /\ typed_vec = <<>>
    /\ issued = <<>>
    /\ segment = NoSegment
    /\ intersections = <<>>
    /\ edges = <<>>
    /\ breakpoint = NoBreakpoint
    /\ clip = NoClip
    /\ iterator = NoIterator

NoOp ==
    [op |-> "none", handle |-> None, before |-> <<>>, event |-> NoEvent, ok |-> TRUE]

EmptyLog ==
    [popped |-> <<>>, run |-> <<>>, removed |-> {}, last |-> NoOp,
     swept |-> 0, bounded |-> 0]

Init ==
    /\ pc = "start"
    /\ points \in Inputs
    /\ queue = <<>>
    /\ event_count = 0
    /\ beachline = EmptyBeachline
    /\ diagram = EmptyDiagram
    /\ panic = NoPanic
    /\ log = EmptyLog
    /\ Unused

\* the build moves to state w, and to pc_next unless w has panicked
Continue(w, pc_next) ==
    /\ queue' = w.queue
    /\ event_count' = w.event_count
    /\ beachline' = w.beachline
    /\ diagram' = w.diagram
    /\ panic' = w.panic
    /\ pc' = IF w.panic # NoPanic THEN "panic" ELSE pc_next
    /\ UNCHANGED <<typed_vec, issued, segment, intersections, edges, breakpoint, clip, iterator>>

World == [queue |-> queue, event_count |-> event_count, beachline |-> beachline,
          diagram |-> diagram, panic |-> panic, rounding |-> 0]

\* build_voronoi, lines 6 to 18
Start ==
    /\ pc = "start"
    /\ Continue(start_build(points), "loop")
    /\ UNCHANGED <<points, log>>

\* the loop handles the popped event r.event, r.queue the queue left; the
\* circle events it computes are rounded as rounding says
Handle(r, rounding) ==
    /\ Continue(handle_event([World EXCEPT !.queue = r.queue, !.rounding = rounding],
                              r.event),
                "loop")
    /\ log' = [log EXCEPT !.popped = Append(@, r.event)]
    /\ UNCHANGED points

\* one turn of the loop of build_voronoi, on a site event
HandleSiteEvent ==
    /\ pc = "loop"
    /\ pop(queue).event.kind = "site"
    /\ \E rounding \in Roundings : Handle(pop(queue), rounding)

\* one turn of the loop of build_voronoi, on a circle event
HandleCircleEvent ==
    /\ pc = "loop"
    /\ pop(queue).event.kind = "circle"
    /\ \E rounding \in Roundings : Handle(pop(queue), rounding)

\* r is what bound_diagram returned
Bounded(r) ==
    /\ Continue([World EXCEPT !.diagram = r.d, !.panic = r.panic], "clip")
    /\ log' = [log EXCEPT !.swept = diagram.half_edge_count,
                          !.bounded = r.d.half_edge_count]
    /\ UNCHANGED points

\* the loop ends on an empty queue; bound_diagram
BoundDiagram ==
    /\ pc = "loop"
    /\ pop(queue).event = NoEvent
    /\ Bounded(bound_diagram(diagram, beachline))

\* r is what intersect_diagram returned
Clipped(r) ==
    /\ Continue([World EXCEPT !.diagram = r.d, !.panic = r.panic], "done")
    /\ UNCHANGED <<points, log>>

\* intersect_diagram on the unit square; the diagram is returned
IntersectDiagram ==
    /\ pc = "clip"
    /\ Clipped(intersect_diagram(BoundingBox(Zero, One, Zero, One), diagram))

Next ==
    \/ Start
    \/ HandleSiteEvent
    \/ HandleCircleEvent
    \/ BoundDiagram
    \/ IntersectDiagram

Spec == Init /\ [][Next]_vars

(***************************************************************************)
(* The harness of the event queue: any sequence of add_site_event,         *)
(* add_circle_event, pop and delete_event (lib.rs) on an EventQueue alone. *)
(* A handle is the number of the event it was returned for.                *)
(***************************************************************************)
HarnessYs == {Plain(Num(i, 1)) : i \in 0..MaxY}

InitQueue ==
    /\ pc = "queue"
    /\ points = <<>>
    /\ queue = <<>>
    /\ event_count = 0
    /\ beachline = EmptyBeachline
    /\ diagram = EmptyDiagram
    /\ panic = NoPanic
    /\ log = EmptyLog
    /\ Unused

\* the event ev is pushed
Pushed(ev) ==
    /\ pc = "queue"
    /\ event_count < MaxEvents
    /\ queue' = add_event_to_queue(queue, ev)
    /\ event_count' = event_count + 1
    /\ log' = [log EXCEPT !.run = <<>>,
                          !.last = [op |-> "add", handle |-> ev.id, before |-> queue,
                                    event |-> ev, ok |-> TRUE]]
    /\ UNCHANGED <<pc, points, beachline, diagram, panic>>
    /\ UNCHANGED <<typed_vec, issued, segment, intersections, edges, breakpoint, clip, iterator>>

AddSiteEvent == \E y \in HarnessYs : Pushed(SiteEvent(event_count + 1, y, Len(queue), 1))

AddCircleEvent ==
    \E y \in HarnessYs :
        Pushed(CircleEvent(event_count + 1, y, Len(queue), NoPoint, 1))

\* r is what pop returned
Popped(r) ==
    /\ queue' = r.queue
    /\ log' = [log EXCEPT
                 !.popped = IF r.event = NoEvent THEN @ ELSE Append(@, r.event),
                 !.run = IF r.event = NoEvent THEN @ ELSE Append(@, r.event.y),
                 !.last = [op |-> "pop", handle |-> r.event.id, before |-> queue,
                           event |-> r.event, ok |-> TRUE]]
    /\ UNCHANGED <<pc, points, event_count, beachline, diagram, panic>>
    /\ UNCHANGED <<typed_vec, issued, segment, intersections, edges, breakpoint, clip, iterator>>

Pop ==
    /\ pc = "queue"
    /\ Popped(pop(queue))

\* r is what delete_event returned for the handle
Deleted(handle, r) ==
    /\ queue' = r.queue
    /\ panic' = IF r.ok THEN panic ELSE "remove_event: index out of bounds"
    /\ pc' = IF r.ok THEN pc ELSE "panic"
    /\ log' = [log EXCEPT
                 !.removed = IF \E k \in 1..Len(queue) : queue[k].id = handle
                             THEN @ \cup {handle} ELSE @,
                 !.last = [op |-> "delete", handle |-> handle, before |-> queue,
                           event |-> NoEvent, ok |-> r.ok]]
    /\ UNCHANGED <<points, event_count, beachline, diagram>>
    /\ UNCHANGED <<typed_vec, issued, segment, intersections, edges, breakpoint, clip, iterator>>

\* delete_event of lib.rs through any handle handed out so far
DeleteEvent ==
    /\ pc = "queue"
    /\ \E handle \in 1..event_count : Deleted(handle, delete_event_handle(queue, handle))

NextQueue ==
    \/ AddSiteEvent
    \/ AddCircleEvent
    \/ Pop
    \/ DeleteEvent

SpecQueue == InitQueue /\ [][NextQueue]_vars

(***************************************************************************)
(* Claims on the event queue.                                              *)
(***************************************************************************)
\* the events that popping q until it is empty returns, in order
RECURSIVE Drain(_)
Drain(q) == IF q = <<>> THEN <<>> ELSE <<pop(q).event>> \o Drain(pop(q).queue)

\* the handles of the events of the sequence q
Handles(q) == {q[k].id : k \in 1..Len(q)}

NonDecreasing(ys) == \A i, j \in 1..Len(ys) : i < j => YLe(ys[i], ys[j])

EventYs(q) == [k \in 1..Len(q) |-> q[k].y]

\* C1: a pop returns an event of the queue whose y is the minimum of the ys
\* in the queue, a pop on an empty queue returns None, and the pops since
\* the last push returned non-decreasing ys.
C1_PopReturnsMinimum ==
    /\ log.last.op = "pop" =>
          IF log.last.before = <<>> THEN log.last.event = NoEvent
          ELSE /\ log.last.event.id \in Handles(log.last.before)
               /\ \A k \in 1..Len(log.last.before) :
                      /\ YLe(log.last.event.y, log.last.before[k].y)
                      /\ log.last.before[k].id = log.last.event.id
                            => log.last.before[k].y = log.last.event.y
               /\ Handles(queue) = Handles(log.last.before) \ {log.last.event.id}
    /\ NonDecreasing(log.run)

\* a pop of a queue of three events with different ys, after another pop
C1_Witness ==
    /\ log.last.op = "pop"
    /\ Len(log.last.before) = 3
    /\ Len(log.run) >= 2
    /\ \E k \in 1..3 : YLt(log.last.event.y, log.last.before[k].y)
    /\ \E k \in 1..3 : YLt(log.run[1], log.last.before[k].y)

C3_StaleHandleNoOp ==
    (log.last.op = "delete" /\ log.last.handle \notin Handles(log.last.before)) =>
        /\ queue = log.last.before
        /\ log.last.ok
        /\ panic = NoPanic
        /\ pc = "queue"

\* the handle of a removed event is used again on a queue of two events
C3_Witness ==
    /\ log.last.op = "delete"
    /\ log.last.handle \notin Handles(log.last.before)
    /\ log.last.handle \in log.removed
    /\ Len(queue) >= 2
    /\ Handles(log.popped) # {}

(***************************************************************************)
(* Claims on the loop of build_voronoi.                                    *)
(***************************************************************************)
\* the circle events of the queue
LiveCircleEvents == {k \in 1..Len(queue) : queue[k].kind = "circle"}

\* C4 as stated: in the loop of the build, the y of every popped event is
\* greater than or equal to the y of every event popped before it.
C4_PoppedNonDecreasing == NonDecreasing(EventYs(log.popped))

\* C4 as amended: the y of every popped event is greater than the y of the
\* event popped just before it minus f64::EPSILON.
C4_PoppedWithinEpsilon ==
    \A i \in 2..Len(log.popped) :
        YGtMinusEpsilon(log.popped[i].y, log.popped[i - 1].y)

\* a circle event pushed in the loop has been popped with a y that the
\* rounding put below the y of the site event popped before it
C4_Witness ==
    \E i \in 2..Len(log.popped) :
        /\ log.popped[i].kind = "circle"
        /\ log.popped[i - 1].kind = "site"
        /\ YLt(log.popped[i].y, log.popped[i - 1].y)
        /\ \E j \in 1..Len(log.popped) : j > i

\* C5: at every turn of the loop, every circle event in the queue refers to
\* an arc that is in the beachline, and no popped circle event found its
\* arc deleted.
C5_NoEventOnDeletedArc ==
    /\ pc = "loop" =>
          \A k \in LiveCircleEvents : queue[k].arc \in DOMAIN beachline.arcs
    /\ panic # "handle_circle_event: the arc is not in the beachline"

\* an arc that had a circle event in the queue has been broken by a site
\* event or removed, events are still queued, and a circle event was popped
C5_Witness ==
    /\ pc = "loop"
    /\ LiveCircleEvents # {}
    /\ \E i \in 1..Len(log.popped) : log.popped[i].kind = "circle"
    /\ \E id \in 1..event_count :
          /\ id \notin Handles(queue)
          /\ id \notin Handles(log.popped)

\* C6: at every turn of the loop, every circle event in the queue is the
\* event that the handle of its arc points at, and no two circle events of
\* the queue are on the same arc.
C6_HandlePointsAtLiveEvent ==
    pc = "loop" =>
        /\ \A k \in LiveCircleEvents :
              /\ queue[k].arc \in DOMAIN beachline.arcs
              /\ beachline.arcs[queue[k].arc].event = queue[k].id
        /\ \A k, j \in LiveCircleEvents : queue[k].arc = queue[j].arc => k = j

\* two circle events on different arcs are in the queue, after a handler
\* has pushed an event for an arc whose earlier event was cancelled
C6_Witness ==
    /\ pc = "loop"
    /\ Cardinality(LiveCircleEvents) >= 2
    /\ \E id \in 1..event_count :
          /\ id \notin Handles(queue)
          /\ id \notin Handles(log.popped)

(***************************************************************************)
(* Claims on the diagram.                                                  *)
(***************************************************************************)
HalfEdgeKeys == DOMAIN diagram.half_edges

\* the build is between two events of the loop, or has returned the diagram
AtBoundary == pc \in {"loop", "done"}

\* the twin of every half-edge that has one is another half-edge of the
\* diagram, whose twin it is
TwinsPaired ==
    \A e \in HalfEdgeKeys :
        diagram.half_edges[e].twin # None =>
            /\ diagram.half_edges[e].twin \in HalfEdgeKeys
            /\ diagram.half_edges[e].twin # e
            /\ diagram.half_edges[diagram.half_edges[e].twin].twin = e

Twinless == {e \in HalfEdgeKeys : diagram.half_edges[e].twin = None}

\* the half-edges that intersect_diagram created
CreatedByClipping == {e \in HalfEdgeKeys : pc = "done" /\ e > log.bounded}

\* the half-edges that complete_edges or intersect_diagram created
CreatedOnBox == {e \in HalfEdgeKeys : pc \in {"clip", "done"} /\ e > log.swept}

\* the number of steps in which the walk from half-edge e along next comes
\* back to start, 0 when it does not within the steps left
RECURSIVE WalkLength(_, _, _, _)
WalkLength(d, start, e, left) ==
    IF left = 0 \/ e \notin DOMAIN d.half_edges THEN 0
    ELSE IF d.half_edges[e].next = start THEN 1
    ELSE IF WalkLength(d, start, d.half_edges[e].next, left - 1) = 0 THEN 0
    ELSE 1 + WalkLength(d, start, d.half_edges[e].next, left - 1)

\* the walk of face f closes within limit steps
Closes(d, f, limit) ==
    /\ d.faces[f].outer_component # None
    /\ WalkLength(d, d.faces[f].outer_component, d.faces[f].outer_component, limit) > 0

DistinctPoints == \A i, j \in 1..Len(points) : points[i] = points[j] => i = j

\* C10: the build of N >= 1 different points returns a diagram, and from
\* the start of the loop on the diagram has N faces, the i-th for the i-th
\* point.
C10_FaceCount ==
    /\ (Len(points) >= 1 /\ DistinctPoints) => pc # "panic"
    /\ pc # "start" =>
          /\ Len(diagram.faces) = Len(points)
          /\ \A i \in 1..Len(points) : diagram.faces[i].point = points[i]

(***************************************************************************)
(* Claims on the beachline.                                                *)
(***************************************************************************)
\* the arcs of the beachline that have a right neighbour
ArcsWithNext == {a \in DOMAIN beachline.arcs : beachline.arcs[a].next # None}

\* C11: at every turn of the loop, for every arc a of the beachline and its
\* right neighbour b, the right half-edge of a is a half-edge of the diagram
\* whose twin is the left half-edge of b.
C11_AdjacentArcsShareEdge ==
    pc = "loop" =>
        \A a \in ArcsWithNext :
            /\ beachline.arcs[a].next \in DOMAIN beachline.arcs
            /\ beachline.arcs[a].right_half_edge \in HalfEdgeKeys
            /\ diagram.half_edges[beachline.arcs[a].right_half_edge].twin
                  = beachline.arcs[beachline.arcs[a].next].left_half_edge

\* the beachline has at least four arcs after site events broke arcs and a
\* circle event removed one
C11_Witness ==
    /\ pc = "loop"
    /\ Cardinality(ArcsWithNext) >= 3
    /\ \E i \in 1..Len(log.popped) : log.popped[i].kind = "circle"
    /\ beachline.arc_count > Cardinality(DOMAIN beachline.arcs) + 3

(***************************************************************************)
(* Termination.  build_voronoi is one sequential call: as long as it is at *)
(* a statement (pc is "start", "loop" or "clip") it takes its next step,   *)
(* and every step moves the position or adds to the history.               *)
(***************************************************************************)
Positions == {"start", "loop", "clip", "done", "panic"}

Running == pc \in {"start", "loop", "clip"}

\* a step of the build: the position moves, or the history grows
BuildStep == Running /\ ((pc' \in Positions \ {pc} /\ log' = log) \/ log' # log)

SpecLive == Spec /\ WF_<<pc, log>>(BuildStep)

\* the loop of build_voronoi is left, by its break or by a panic
LoopEnds == <>(pc \in {"clip", "done", "panic"})

\* C12: the build of different points runs to completion: the loop ends
\* on an empty queue and the diagram is returned.
C12_BuildCompletes == DistinctPoints => <>(pc = "done" /\ queue = <<>>)

(***************************************************************************)
(* Claims on the inputs of the build.                                      *)
(***************************************************************************)
\* C13: the build of zero points does not fail, and at every step of it,
\* the completion and the clipping pass included, the diagram has no face,
\* no vertex and no half-edge, the beachline has no arc and the queue no
\* event.
C13_EmptyInputEmptyDiagram ==
    Len(points) = 0 =>
        /\ pc # "panic"
        /\ panic = NoPanic
        /\ diagram = EmptyDiagram
        /\ beachline = EmptyBeachline
        /\ queue = <<>>
        /\ log.popped = <<>>

\* the build of zero points has returned, after the completion and the
\* clipping pass
C13_Witness ==
    /\ Len(points) = 0
    /\ pc = "done"
    /\ log.bounded = 0

\* the panic! of locate_arc_above on a site at the focus of an arc
DuplicateSite == "Two sites located at the same point"

\* C14: the build of an input in which two points coincide does not return
\* a diagram, and when it fails it fails with the panic of locate_arc_above
\* for two sites at the same point.
C14_DuplicateSiteDetected ==
    ~DistinctPoints =>
        /\ pc # "done"
        /\ pc = "panic" => panic = DuplicateSite

\* the sites of the input are two or more different points of one
\* horizontal line
HorizontalSites ==
    /\ Len(points) >= 2
    /\ DistinctPoints
    /\ \A i \in 1..Len(points) : points[i].y = points[1].y

\* C15: the build of two or more different sites of one horizontal line
\* does not fail: locate_arc_above finds an arc for every site.
C15_HorizontalSitesComplete == HorizontalSites => pc # "panic"

(***************************************************************************)
(* Inputs with a coordinate that is NaN or infinite: an input of less than *)
(* MaxSites points of the grid, followed by one point with such a          *)
(* coordinate.                                                             *)
(***************************************************************************)
NonFinitePoints ==
    {Vec(x, Half) : x \in {NaN, PInf, NInf}} \cup {Vec(Half, y) : y \in {NaN, PInf, NInf}}

NonFiniteInputs ==
    {Append(s, p) : s \in UNION {[1..n -> Grid] : n \in 0..(MaxSites - 1)},
                    p \in NonFinitePoints}

InitNonFinite ==
    /\ pc = "start"
    /\ points \in NonFiniteInputs
    /\ queue = <<>>
    /\ event_count = 0
    /\ beachline = EmptyBeachline
    /\ diagram = EmptyDiagram
    /\ panic = NoPanic
    /\ log = EmptyLog
    /\ Unused

SpecNonFinite == InitNonFinite /\ [][Next]_vars

\* the input has a coordinate that is NaN or infinite
HasNonFinite ==
    \E i \in 1..Len(points) : ~IsFinite(points[i].x) \/ ~IsFinite(points[i].y)

\* the fatal error of an input with a NaN or infinite coordinate
NonFiniteInput == "NonFiniteInput"

\* C16: the build of an input with a NaN or infinite coordinate does not
\* return a diagram, and when it fails it fails with NonFiniteInput.
C16_NonFiniteInputFails ==
    HasNonFinite =>
        /\ pc # "done"
        /\ pc = "panic" => panic = NonFiniteInput

(***************************************************************************)
(* typedvector.rs.  A TypedVec is a Vec, here the sequence of its items; a *)
(* TypedIndex is a position in it, counted from 0.                         *)
(***************************************************************************)
\* insert: [vec, index], the item pushed and the index of the last element
insert(vec, item) == [vec |-> Append(vec, item), index |-> Len(vec)]

\* remove: Vec::remove, which shifts the elements after index to the left
\* and panics when index is out of bounds; [vec, ok]
remove(vec, index) ==
    IF index < Len(vec)
    THEN [vec |-> SubSeq(vec, 1, index) \o SubSeq(vec, index + 2, Len(vec)), ok |-> TRUE]
    ELSE [vec |-> vec, ok |-> FALSE]

\* get: Vec::get, None when index is out of bounds
get(vec, index) == IF index < Len(vec) THEN vec[index + 1] ELSE None

\* the largest number of items inserted in the TypedVec
MaxItems == 4

(***************************************************************************)
(* Any sequence of insert and remove on a TypedVec alone.  The items are   *)
(* numbered 1, 2, ... as they are inserted; issued keeps, for each insert, *)
(* the index returned, the item, and whether remove was called with that   *)
(* index since.  remove is only called with an index that insert returned  *)
(* and that was not removed before.                                        *)
(***************************************************************************)
InitPool ==
    /\ pc = "pool"
    /\ points = <<>>
    /\ queue = <<>>
    /\ event_count = 0
    /\ beachline = EmptyBeachline
    /\ diagram = EmptyDiagram
    /\ panic = NoPanic
    /\ log = EmptyLog
    /\ Unused

\* r is what insert returned for the item
Inserted(item, r) ==
    /\ typed_vec' = r.vec
    /\ issued' = Append(issued, [index |-> r.index, item |-> item, live |-> TRUE])
    /\ UNCHANGED <<pc, panic>>

Insert ==
    /\ pc = "pool"
    /\ Len(issued) < MaxItems
    /\ Inserted(Len(issued) + 1, insert(typed_vec, Len(issued) + 1))
    /\ UNCHANGED <<points, queue, event_count, beachline, diagram, log>>
    /\ UNCHANGED <<segment, intersections, edges, breakpoint, clip, iterator>>

\* r is what remove returned for the index of the k-th insert
Removed(k, r) ==
    /\ typed_vec' = r.vec
    /\ issued' = [issued EXCEPT ![k].live = FALSE]
    /\ panic' = IF r.ok THEN panic ELSE "remove: removal index out of bounds"
    /\ pc' = IF r.ok THEN pc ELSE "panic"

Remove ==
    /\ pc = "pool"
    /\ \E k \in 1..Len(issued) :
          /\ issued[k].live
          /\ Removed(k, remove(typed_vec, issued[k].index))
    /\ UNCHANGED <<points, queue, event_count, beachline, diagram, log>>
    /\ UNCHANGED <<segment, intersections, edges, breakpoint, clip, iterator>>

NextPool ==
    \/ Insert
    \/ Remove

SpecPool == InitPool /\ [][NextPool]_vars

\* C17: after any sequence of insert and remove, every index that insert
\* returned and that was not removed resolves through get to the item it
\* was returned for, and no remove of such an index fails.
C17_KeysStable ==
    /\ \A k \in 1..Len(issued) :
          issued[k].live => get(typed_vec, issued[k].index) = issued[k].item
    /\ panic = NoPanic

(***************************************************************************)
(* Claims on the positions in the event queue.                             *)
(***************************************************************************)
\* C18: after any sequence of add_site_event, add_circle_event, pop and
\* delete_event, the event stored at position i of the heap has index i
\* (positions count from 0), so every handle of a queued event gives the
\* position at which that event is.
C18_IndexIsPosition ==
    /\ \A k \in 1..Len(queue) : queue[k].index = k - 1
    /\ \A h \in Handles(queue) : \A k \in 1..Len(queue) :
          queue[k].id = h => upgrade(queue, h).id = h /\ upgrade(queue, h).index = k - 1

\* an event was popped and one was removed, and in the heap of the events
\* left an event pushed later stands before one pushed earlier
C18_Witness ==
    /\ pc = "queue"
    /\ Len(queue) >= 2
    /\ log.popped # <<>>
    /\ log.removed # {}
    /\ \E i, j \in 1..Len(queue) : i < j /\ queue[i].id > queue[j].id

(***************************************************************************)
(* get_intersections alone: a call on the unit box with a segment whose    *)
(* ends are points of a grid of step 1/2 that reaches BoxReach steps       *)
(* beyond the box on every side.                                           *)
(***************************************************************************)
BoxReach == 1

UnitBox == BoundingBox(Zero, One, Zero, One)

SegmentEnds == {Vec(Num(i, 2), Num(j, 2)) : i, j \in (0 - BoxReach)..(2 + BoxReach)}

InitBox ==
    /\ pc = "box"
    /\ points = <<>>
    /\ queue = <<>>
    /\ event_count = 0
    /\ beachline = EmptyBeachline
    /\ diagram = EmptyDiagram
    /\ panic = NoPanic
    /\ log = EmptyLog
    /\ typed_vec = <<>>
    /\ issued = <<>>
    /\ segment \in [origin : SegmentEnds, destination : SegmentEnds]
    /\ intersections = <<>>
    /\ edges = <<>>
    /\ breakpoint = NoBreakpoint
    /\ clip = NoClip
    /\ iterator = NoIterator

GetIntersections ==
    /\ pc = "box"
    /\ pc' = "boxed"
    /\ intersections' = get_intersections(UnitBox, segment.origin, segment.destination)
    /\ UNCHANGED <<points, queue, event_count, beachline, diagram, panic, log>>
    /\ UNCHANGED <<typed_vec, issued, segment, edges, breakpoint, clip, iterator>>

NextBox == GetIntersections

SpecBox == InitBox /\ [][NextBox]_vars

\* the point is in the box and not on its boundary
StrictlyInside(box, point) ==
    /\ FGt(point.x, box.left)
    /\ FLt(point.x, box.right)
    /\ FGt(point.y, box.top)
    /\ FLt(point.y, box.bottom)

\* C19: get_intersections returns 0, 1 or 2 intersections: exactly 1 when
\* one end of the segment is inside the box and the other outside, and 0 or
\* 2 when both ends are outside.
C19_IntersectionCount ==
    pc = "boxed" =>
        /\ Len(intersections) \in {0, 1, 2}
        /\ (StrictlyInside(UnitBox, segment.origin) /\ ~contains(UnitBox, segment.destination))
              => Len(intersections) = 1
        /\ (~contains(UnitBox, segment.origin) /\ StrictlyInside(UnitBox, segment.destination))
              => Len(intersections) = 1
        /\ (~contains(UnitBox, segment.origin) /\ ~contains(UnitBox, segment.destination))
              => Len(intersections) \in {0, 2}

(***************************************************************************)
(* Claims on the outer components of the faces.                            *)
(***************************************************************************)
\* the half-edges incident to face f
IncidentTo(f) == {e \in HalfEdgeKeys : diagram.half_edges[e].incident_face = f}

\* the half-edge incident to face f that was created first
FirstIncidentTo(f) == CHOOSE e \in IncidentTo(f) : \A e2 \in IncidentTo(f) : e <= e2

\* C20: during the sweep and the completion pass, where add_half_edge is
\* the only writer of outer components, a face without incident half-edge
\* has no outer component, and a face with incident half-edges has the
\* first of them as its outer component: add_half_edge has set it when it
\* was unset and left it unchanged afterwards.
C20_OuterComponentIsFirstHalfEdge ==
    pc \in {"loop", "clip"} =>
        \A f \in 1..Len(diagram.faces) :
            diagram.faces[f].outer_component =
                IF IncidentTo(f) = {} THEN None ELSE FirstIncidentTo(f)

\* in the sweep a face has three or more half-edges, the first of which is
\* its outer component, and the face of a site not yet handled has none
C20_Witness ==
    /\ pc = "loop"
    /\ \E f \in 1..Len(diagram.faces) :
          /\ Cardinality(IncidentTo(f)) >= 3
          /\ diagram.faces[f].outer_component = FirstIncidentTo(f)
    /\ \E f \in 1..Len(diagram.faces) : IncidentTo(f) = {}


\* ---------------------------------------------------------------------
\* C21: the faces of the returned diagram are the nearest-site regions
\* ---------------------------------------------------------------------

OneThird == Num(1, 3)

\* both ends of half-edge e are vertices of the pool
HasEnds(e) ==
    /\ diagram.half_edges[e].origin \in DOMAIN diagram.vertices
    /\ diagram.half_edges[e].destination \in DOMAIN diagram.vertices

\* a point inside the face of half-edge e: the centroid of the triangle
\* spanned by the face's site and the two ends of e
InteriorPoint(e) ==
    VMul(VAdd(VAdd(get_face_point(diagram, diagram.half_edges[e].incident_face),
                   get_vertex_point(diagram, diagram.half_edges[e].origin)),
              get_vertex_point(diagram, diagram.half_edges[e].destination)),
         OneThird)

StrictlyNearest(q, f) ==
    \A g \in 1..Len(diagram.faces) :
        g # f => FLt(Distance2(q, get_face_point(diagram, f)),
                     Distance2(q, get_face_point(diagram, g)))

VertexExists(v) == v = None \/ v \in DOMAIN diagram.vertices

HalfEdgeExists(h) == h = None \/ h \in HalfEdgeKeys

WideReach == 2
\* the largest number of sites of a wide input
MaxWideSites == 3

WideGrid == {Vec(Num(i, 1), Num(j, 1)) : i, j \in 0..WideReach}

WideInputs == UNION {[1..n -> WideGrid] : n \in 0..MaxWideSites}

\* build_voronoi on sites in and around the unit square
InitWide ==
    /\ pc = "start"
    /\ points \in WideInputs
    /\ queue = <<>>
    /\ event_count = 0
    /\ beachline = EmptyBeachline
    /\ diagram = EmptyDiagram
    /\ panic = NoPanic
    /\ log = EmptyLog
    /\ Unused

SpecWide == InitWide /\ [][Next]_vars

ContainmentAssertion == "get_intersection: assertion failed: self.contains(origin)"

\* C23: for every finite input, sites outside the unit square included, the
\* origin of every ray complete_edges passes to get_intersection lies inside
\* the completion box: the containment assertion never fails.
C23_RayOriginInsideBox == panic # ContainmentAssertion


\* ---------------------------------------------------------------------
\* C24: compute_circumcircle_center is not called on collinear sites
\* ---------------------------------------------------------------------

\* the three points lie on a line (two equal points included)
Collinear(p1, p2, p3) == FEq(get_det(VSub(p1, p2), VSub(p2, p3)), Zero)

\* the triple the check on the left of the adjacent arcs a, c passes to add_event
LeftTriple(b, a, c) ==
    IF b.arcs[a].prev # None THEN {<<b.arcs[a].prev, a, c>>} ELSE {}

\* the triple the check on the right of the adjacent arcs a, c passes to add_event
RightTriple(b, a, c) ==
    IF b.arcs[c].next # None THEN {<<a, c, b.arcs[c].next>>} ELSE {}

\* the step broke an arc for a site event
SiteStep ==
    /\ pc = "loop" /\ panic' = NoPanic
    /\ beachline'.arc_count = beachline.arc_count + 3

\* the step removed the arc of a circle event
CircleStep ==
    /\ pc = "loop" /\ panic' = NoPanic
    /\ pop(queue).event.kind = "circle"
    /\ pop(queue).event.arc \in DOMAIN beachline.arcs
    /\ pop(queue).event.arc \notin DOMAIN beachline'.arcs

\* the triples of arcs add_event was called on in the step, each of which
\* it passes to compute_circumcircle_center
TriplesOfStep ==
    IF SiteStep
    THEN LeftTriple(beachline', beachline'.arcs[beachline.arc_count + 1].prev,
                    beachline.arc_count + 1)
         \cup RightTriple(beachline', beachline.arc_count + 1,
                          beachline'.arcs[beachline.arc_count + 1].next)
    ELSE IF CircleStep
    THEN LeftTriple(beachline', beachline.arcs[pop(queue).event.arc].prev,
                    beachline.arcs[pop(queue).event.arc].next)
         \cup RightTriple(beachline', beachline.arcs[pop(queue).event.arc].prev,
                          beachline.arcs[pop(queue).event.arc].next)
    ELSE {}

SitePoint(arc) == get_face_point(diagram, beachline'.arcs[arc].site)

NoCollinearCall ==
    \A t \in TriplesOfStep : ~Collinear(SitePoint(t[1]), SitePoint(t[2]), SitePoint(t[3]))

\* C24: no step of a build calls compute_circumcircle_center on three
\* collinear sites (or on a triple in which two arcs have the same site).
C24_NoCollinearCircumcenter == [][NoCollinearCall]_vars


(***************************************************************************)
(* delauney.rs: the dual graph of a diagram.  The result of a walk or of   *)
(* get_edges is [edges, panic]: the pairs pushed so far and NoPanic, the   *)
(* message of the unwrap that failed, or Walking when the iterator never   *)
(* comes back to its start_edge and get_edges does not return.             *)
(***************************************************************************)
Walking == "get_edges: the walk never reaches start_edge again"

\* the unwraps of delauney.rs and of the accessors it calls
HalfEdgeGone == "delauney: the half-edge is not in the pool"
TwinGone == "delauney: the twin is not in the pool"
NoOuterComponent == "delauney: get_face_outer_component is None"

\* lines 22 to 33: the pair pushed for the half-edge the iterator is at
push_adjacent(d, index, current_edge, pushed) ==
    IF d.half_edges[current_edge].twin = None THEN pushed
    ELSE Append(pushed,
                <<index, d.half_edges[d.half_edges[current_edge].twin].incident_face>>)

\* AdjacentVertexIterator::next, called until it returns None: current_edge
\* is the half-edge the iterator is at, steps the number of half-edges it
\* can still visit before it visits one for the second time
RECURSIVE adjacent_vertices(_, _, _, _, _, _)
adjacent_vertices(d, index, start_edge, current_edge, steps, pushed) ==
    IF current_edge \notin DOMAIN d.half_edges
    THEN [edges |-> pushed, panic |-> HalfEdgeGone]
    ELSE IF /\ d.half_edges[current_edge].twin # None
            /\ d.half_edges[current_edge].twin \notin DOMAIN d.half_edges
    THEN [edges |-> pushed, panic |-> TwinGone]
    ELSE IF d.half_edges[current_edge].next \in {None, start_edge}
    THEN [edges |-> push_adjacent(d, index, current_edge, pushed), panic |-> NoPanic]
    ELSE IF steps = 1
    THEN [edges |-> push_adjacent(d, index, current_edge, pushed), panic |-> Walking]
    ELSE adjacent_vertices(d, index, start_edge, d.half_edges[current_edge].next,
                           steps - 1, push_adjacent(d, index, current_edge, pushed))

\* get_adjacent_vertex_iterator and the inner loop of get_edges
get_adjacent_vertex_iterator(d, index, pushed) ==
    IF d.faces[index].outer_component = None
    THEN [edges |-> pushed, panic |-> NoOuterComponent]
    ELSE adjacent_vertices(d, index, d.faces[index].outer_component,
                           d.faces[index].outer_component,
                           Cardinality(DOMAIN d.half_edges), pushed)

\* the outer loop of get_edges, from the face index on; r is [edges, panic]
RECURSIVE get_edges_from(_, _, _)
get_edges_from(d, index, r) ==
    IF r.panic # NoPanic \/ index > Len(d.faces) THEN r
    ELSE get_edges_from(d, index + 1, get_adjacent_vertex_iterator(d, index, r.edges))

get_edges(d) == get_edges_from(d, 1, [edges |-> <<>>, panic |-> NoPanic])

(***************************************************************************)
(* build_voronoi followed by get_edges on the diagram it returned.  pc is  *)
(* "dual" when get_edges has returned, "walking" when it runs for ever;    *)
(* edges is the vector returned, empty when none is.                       *)
(***************************************************************************)
\* r is what get_edges did
GotEdges(r) ==
    /\ edges' = IF r.panic = NoPanic THEN r.edges ELSE <<>>
    /\ panic' = IF r.panic = Walking THEN NoPanic ELSE r.panic
    /\ pc' = IF r.panic = NoPanic THEN "dual"
             ELSE IF r.panic = Walking THEN "walking" ELSE "panic"

GetEdges ==
    /\ pc = "done"
    /\ GotEdges(get_edges(diagram))
    /\ UNCHANGED <<points, queue, event_count, beachline, diagram, log>>
    /\ UNCHANGED <<typed_vec, issued, segment, intersections, breakpoint, clip, iterator>>

NextDual ==
    \/ Next
    \/ GetEdges

SpecDual == Init /\ [][NextDual]_vars

\* ---------------------------------------------------------------------
\* C25: the Delaunay edge relation is undirected
\* ---------------------------------------------------------------------

Reported == {edges[k] : k \in 1..Len(edges)}

\* face i has a half-edge whose twin is incident to face j
SharesEdge(i, j) ==
    \E e \in HalfEdgeKeys :
        /\ diagram.half_edges[e].incident_face = i
        /\ diagram.half_edges[e].twin \in HalfEdgeKeys
        /\ diagram.half_edges[diagram.half_edges[e].twin].incident_face = j

\* no three sites of the input lie on a line
GeneralPosition ==
    \A a, b, c \in 1..Len(points) :
        (a < b /\ b < c) => ~Collinear(points[a], points[b], points[c])

\* get_edges was called on the diagram the build returned
Derived ==
    \/ pc \in {"dual", "walking"}
    \/ pc = "panic" /\ panic \in {HalfEdgeGone, TwinGone, NoOuterComponent}

MaxArcs == 13

InitBeach ==
    /\ pc = "beach"
    /\ points = <<>>
    /\ queue = <<>>
    /\ event_count = 0
    /\ beachline = EmptyBeachline
    /\ diagram = EmptyDiagram
    /\ panic = NoPanic
    /\ log = EmptyLog
    /\ Unused

CreateRoot ==
    /\ pc = "beach"
    /\ ~has_root(beachline)
    /\ beachline.arc_count + 1 <= MaxArcs
    /\ beachline' = create_root(beachline, beachline.arc_count + 1)
    /\ UNCHANGED <<pc, points, queue, event_count, diagram, panic, log>>
    /\ UNCHANGED <<typed_vec, issued, segment, intersections, edges, breakpoint, clip, iterator>>

BreakArc ==
    /\ pc = "beach"
    /\ beachline.arc_count + 3 <= MaxArcs
    /\ \E arc \in DOMAIN beachline.arcs :
          beachline' = break_arc(beachline, arc, beachline.arc_count + 1)
    /\ UNCHANGED <<pc, points, queue, event_count, diagram, panic, log>>
    /\ UNCHANGED <<typed_vec, issued, segment, intersections, edges, breakpoint, clip, iterator>>

RemoveArc ==
    /\ pc = "beach"
    /\ \E arc \in DOMAIN beachline.arcs :
          beachline' = remove_arc_from_beachline(beachline, arc)
    /\ UNCHANGED <<pc, points, queue, event_count, diagram, panic, log>>
    /\ UNCHANGED <<typed_vec, issued, segment, intersections, edges, breakpoint, clip, iterator>>

NextBeach ==
    \/ CreateRoot
    \/ BreakArc
    \/ RemoveArc

SpecBeach == InitBeach /\ [][NextBeach]_vars

\* ---------------------------------------------------------------------
\* C26: the tree order and the prev/next list of the beachline agree
\* ---------------------------------------------------------------------

\* the in-order traversal of the subtree of arc, at most depth levels deep
RECURSIVE InOrder(_, _, _)
InOrder(b, arc, depth) ==
    IF arc = None \/ arc \notin DOMAIN b.arcs \/ depth = 0 THEN <<>>
    ELSE InOrder(b, b.arcs[arc].left, depth - 1) \o <<arc>>
         \o InOrder(b, b.arcs[arc].right, depth - 1)

\* the arcs met by following next from arc, at most steps of them
RECURSIVE FollowNext(_, _, _)
FollowNext(b, arc, steps) ==
    IF arc = None \/ arc \notin DOMAIN b.arcs \/ steps = 0 THEN <<>>
    ELSE <<arc>> \o FollowNext(b, b.arcs[arc].next, steps - 1)

ArcsInOrder == InOrder(beachline, beachline.root, Cardinality(DOMAIN beachline.arcs))

\* C26: after any sequence of create_root, break_arc and remove_arc the
\* in-order traversal of the tree holds every arc once and is the sequence
\* of next from the leftmost arc, and prev is the inverse of next (so the
\* prev and next of an arc are its in-order predecessor and successor).
C26_TreeOrderIsListOrder ==
    pc = "beach" =>
        /\ Len(ArcsInOrder) = Cardinality(DOMAIN beachline.arcs)
        /\ has_root(beachline) =>
              ArcsInOrder = FollowNext(beachline,
                                       get_leftmost_arc(beachline, beachline.root),
                                       Cardinality(DOMAIN beachline.arcs) + 1)
        /\ \A k \in 1..Len(ArcsInOrder) :
              /\ beachline.arcs[ArcsInOrder[k]].prev
                     = IF k = 1 THEN None ELSE ArcsInOrder[k - 1]
              /\ beachline.arcs[ArcsInOrder[k]].next
                     = IF k = Len(ArcsInOrder) THEN None ELSE ArcsInOrder[k + 1]

C26_Witness ==
    /\ pc = "beach"
    /\ beachline.arc_count = MaxArcs
    /\ Cardinality(DOMAIN beachline.arcs) = 4
    /\ \E arc \in DOMAIN beachline.arcs :
          beachline.arcs[arc].left # None /\ beachline.arcs[arc].right # None


\* ---------------------------------------------------------------------
\* C27: the beachline tree is a red-black tree
\* ---------------------------------------------------------------------

IsBlack(b, arc) == arc = None \/ b.arcs[arc].color = "BLACK"

\* the numbers of black arcs on the paths from arc down to a leaf, over the
\* first depth levels
RECURSIVE BlackHeights(_, _, _)
BlackHeights(b, arc, depth) ==
    IF arc = None \/ depth = 0 THEN {0}
    ELSE {h + (IF b.arcs[arc].color = "BLACK" THEN 1 ELSE 0) :
            h \in BlackHeights(b, b.arcs[arc].left, depth - 1)
                  \cup BlackHeights(b, b.arcs[arc].right, depth - 1)}

\* C27: after any sequence of arc breaks and arc deletions of a build the
\* beachline tree has the red-black properties: the root is black, no red
\* arc has a red child, and every path from the root to a leaf has the same
\* number of black arcs.
C27_RedBlackTree ==
    has_root(beachline) =>
        /\ IsBlack(beachline, beachline.root)
        /\ \A arc \in DOMAIN beachline.arcs :
              ~IsBlack(beachline, arc) =>
                  /\ IsBlack(beachline, beachline.arcs[arc].left)
                  /\ IsBlack(beachline, beachline.arcs[arc].right)
        /\ Cardinality(BlackHeights(beachline, beachline.root,
                                    Cardinality(DOMAIN beachline.arcs))) = 1


\* ---------------------------------------------------------------------
\* C28: break_arc puts three arcs in the place of the arc located
\* ---------------------------------------------------------------------

\* the arcs other than arc keep their face and their half-edges
OthersKept(arc) ==
    \A other \in DOMAIN beachline.arcs \ {arc} :
        /\ other \in DOMAIN beachline'.arcs
        /\ beachline'.arcs[other].site = beachline.arcs[other].site
        /\ beachline'.arcs[other].left_half_edge = beachline.arcs[other].left_half_edge
        /\ beachline'.arcs[other].right_half_edge = beachline.arcs[other].right_half_edge

\* the step broke the k-th arc of the beachline for the site of face new_site;
\* the new arcs are middle_arc, middle_arc + 1 (left) and middle_arc + 2 (right)
BrokenAt(k, middle_arc, new_site) ==
    /\ ArcsInOrder[k] \notin DOMAIN beachline'.arcs
    /\ ArcsInOrder' = SubSeq(ArcsInOrder, 1, k - 1)
                      \o <<middle_arc + 1, middle_arc, middle_arc + 2>>
                      \o SubSeq(ArcsInOrder, k + 1, Len(ArcsInOrder))
    /\ beachline'.arcs[middle_arc].site = new_site
    /\ beachline'.arcs[middle_arc + 1].site = beachline.arcs[ArcsInOrder[k]].site
    /\ beachline'.arcs[middle_arc + 2].site = beachline.arcs[ArcsInOrder[k]].site
    /\ beachline'.arcs[middle_arc + 1].left_half_edge
           = beachline.arcs[ArcsInOrder[k]].left_half_edge
    /\ beachline'.arcs[middle_arc + 2].right_half_edge
           = beachline.arcs[ArcsInOrder[k]].right_half_edge
    /\ OthersKept(ArcsInOrder[k])

BreakFrame ==
    SiteStep =>
        \E k \in 1..Len(ArcsInOrder) :
            BrokenAt(k, beachline.arc_count + 1, pop(queue).event.face)

\* C28: the handling of a site event replaces the located arc by three
\* consecutive arcs at its place in the beachline order: left and right
\* have the old arc's face and middle the new one, the left copy has the old
\* arc's left half-edge and the right copy its right half-edge; the order,
\* faces and half-edges of the other arcs are unchanged.
C28_BreakArcFrame == [][BreakFrame]_vars

\* an arc that had both half-edges was broken last
C28_Witness ==
    /\ pc = "loop"
    /\ beachline.arc_count >= 7
    /\ {beachline.arc_count - 2, beachline.arc_count - 1, beachline.arc_count}
           \subseteq DOMAIN beachline.arcs
    /\ beachline.arcs[beachline.arc_count - 1].left_half_edge # None
    /\ beachline.arcs[beachline.arc_count].right_half_edge # None
    /\ beachline.arcs[beachline.arc_count - 1].left_half_edge
           # beachline.arcs[beachline.arc_count].right_half_edge


(***************************************************************************)
(* compute_breakpoint alone: one call with two points of the grid and a    *)
(* sweep line through the grid.                                            *)
(***************************************************************************)
SweepYs == {Num(j, GridSize) : j \in 0..GridSize}

InitBreakpoint ==
    /\ pc = "breakpoint"
    /\ points = <<>>
    /\ queue = <<>>
    /\ event_count = 0
    /\ beachline = EmptyBeachline
    /\ diagram = EmptyDiagram
    /\ panic = NoPanic
    /\ log = EmptyLog
    /\ typed_vec = <<>>
    /\ issued = <<>>
    /\ segment = NoSegment
    /\ intersections = <<>>
    /\ edges = <<>>
    /\ breakpoint \in [point1 : Grid, point2 : Grid, y : SweepYs, result : {BVal(Zero)}]
    /\ clip = NoClip
    /\ iterator = NoIterator

ComputeBreakpoint ==
    /\ pc = "breakpoint"
    /\ pc' = "computed"
    /\ breakpoint' = [breakpoint EXCEPT
                         !.result = compute_breakpoint(breakpoint.point1,
                                                       breakpoint.point2, breakpoint.y)]
    /\ UNCHANGED <<points, queue, event_count, beachline, diagram, panic, log>>
    /\ UNCHANGED <<typed_vec, issued, segment, intersections, edges, clip, iterator>>

NextBreakpoint == ComputeBreakpoint

SpecBreakpoint == InitBreakpoint /\ [][NextBreakpoint]_vars

\* ---------------------------------------------------------------------
\* C29: the breakpoint beside a site on the sweep line is the site's x
\* ---------------------------------------------------------------------

\* the coefficient a of compute_breakpoint is not zero (a == 0.0 is false)
QuadraticANonZero ==
    ~FEq(FSub(FDiv(One, FMul(Two, FSub(breakpoint.point1.y, breakpoint.y))),
              FDiv(One, FMul(Two, FSub(breakpoint.point2.y, breakpoint.y)))),
         Zero)

\* C29: compute_breakpoint(p1, p2, y) returns p2.x when p2.y = y, p1.y # y
\* and the coefficient a is not zero, and returns p1.x when p1.y = y and a
\* is not zero.
C29_BreakpointAtSiteOnSweepLine ==
    (pc = "computed" /\ QuadraticANonZero) =>
        /\ (FEq(breakpoint.point2.y, breakpoint.y) /\ ~FEq(breakpoint.point1.y, breakpoint.y))
              => breakpoint.result = BVal(breakpoint.point2.x)
        /\ FEq(breakpoint.point1.y, breakpoint.y)
              => breakpoint.result = BVal(breakpoint.point1.x)


\* ---------------------------------------------------------------------
\* C30: delete_event leaves the arc without an event handle
\* ---------------------------------------------------------------------

\* the arcs the step called delete_event on: the arc a site event broke, the
\* two neighbours of the arc a circle event removed
CancelledArcs ==
    IF SiteStep THEN DOMAIN beachline.arcs \ DOMAIN beachline'.arcs
    ELSE IF CircleStep
    THEN {beachline.arcs[pop(queue).event.arc].prev,
          beachline.arcs[pop(queue).event.arc].next}
    ELSE {}

\* the handle the arc stores after the step was stored in the step itself,
\* by an add_event that followed the delete_event
FreshHandle(arc) == beachline'.arcs[arc].event > event_count

\* the event the arc's handle named is not in the queue after the step
EventCancelled(arc) ==
    beachline.arcs[arc].event # None
        => beachline.arcs[arc].event \notin Handles(queue')

HandleCleared ==
    \A arc \in CancelledArcs :
        /\ EventCancelled(arc)
        /\ arc \in DOMAIN beachline'.arcs
              => beachline'.arcs[arc].event = None \/ FreshHandle(arc)

\* C30 as stated: delete_event(arc) removes the event of the arc's handle
\* from the queue and clears the handle, so that the arc then stores no
\* event handle (until an add_event stores a new one).
C30_HandleClearedAsStated == [][HandleCleared]_vars

HandleDead ==
    \A arc \in CancelledArcs :
        /\ EventCancelled(arc)
        /\ arc \in DOMAIN beachline'.arcs
              => upgrade(queue', beachline'.arcs[arc].event) = NoEvent \/ FreshHandle(arc)

\* C30 as amended: delete_event(arc) removes the event of the arc's handle
\* from the queue; the handle stays in the arc, but it does not upgrade any
\* more (until an add_event stores a new one).
C30_HandleDeadAfterDelete == [][HandleDead]_vars

\* the neighbour of a removed arc still stores the handle of an event that
\* was cancelled and is neither in the queue nor popped
C30_Witness ==
    /\ pc = "loop"
    /\ \E i \in 1..Len(log.popped) : log.popped[i].kind = "circle"
    /\ \E arc \in DOMAIN beachline.arcs :
          /\ beachline.arcs[arc].event # None
          /\ beachline.arcs[arc].event \notin Handles(queue)
          /\ beachline.arcs[arc].event \notin Handles(log.popped)

(***************************************************************************)
(* Claims on the links of the half-edges.                                  *)
(***************************************************************************)
\* half-edge e has a next half-edge that is in the diagram
HasNext(e) == diagram.half_edges[e].next \in HalfEdgeKeys

\* half-edge e and its next bound the same face, and where e ends its next
\* starts when both ends are assigned
ChainedToNext(e) ==
    LET next == diagram.half_edges[diagram.half_edges[e].next]
    IN  /\ diagram.half_edges[e].incident_face = next.incident_face
        /\ (diagram.half_edges[e].destination # None /\ next.origin # None)
              => diagram.half_edges[e].destination = next.origin

HasTwin(e) == diagram.half_edges[e].twin \in HalfEdgeKeys

\* the ends of half-edge e that are assigned are the opposite ends of its twin
Mirrored(e) ==
    LET twin == diagram.half_edges[diagram.half_edges[e].twin]
    IN  /\ diagram.half_edges[e].origin # None
              => diagram.half_edges[e].origin = twin.destination
        /\ diagram.half_edges[e].destination # None
              => diagram.half_edges[e].destination = twin.origin

\* C32: between two events of the loop, after complete_edges and after
\* intersect_diagram, every end that is assigned to a half-edge with a twin
\* is the opposite end of the twin (the same vertex).
C32_TwinEndsMirrored ==
    pc \in {"loop", "clip", "done"} => \A e \in HalfEdgeKeys : HasTwin(e) => Mirrored(e)

\* a diagram has been returned after circle events, in which the origin of
\* a half-edge with a twin is a vertex that the clipping pass added (it is
\* not older than the origin of a half-edge made by the clipping pass) and
\* its destination the vertex of a circle event
C32_Witness ==
    /\ pc = "done"
    /\ \E e \in HalfEdgeKeys :
          /\ HasTwin(e)
          /\ diagram.half_edges[e].destination # None
          /\ \E i \in 1..Len(log.popped) :
                /\ log.popped[i].kind = "circle"
                /\ get_vertex_point(diagram, diagram.half_edges[e].destination)
                      = log.popped[i].point
          /\ \E h \in CreatedByClipping :
                /\ diagram.half_edges[h].origin # None
                /\ diagram.half_edges[e].origin # None
                /\ diagram.half_edges[e].origin >= diagram.half_edges[h].origin

\* the vertices of the circle events handled are 1..CircleVertices
CircleVertices == Cardinality({i \in 1..Len(log.popped) : log.popped[i].kind = "circle"})

\* the clipping pass did not find the end of a half-edge unassigned
ClippingMetEnds ==
    panic \notin {"intersect_diagram: get_half_edge_origin is None",
                  "intersect_diagram: get_half_edge_destination is None"}

\* C33: when complete_edges has returned, every half-edge that the sweep
\* created has its origin and its destination assigned, and intersect_diagram
\* never unwraps an unassigned origin or destination.
C33_EndsAssignedBeforeClipping ==
    /\ pc = "clip" =>
          \A e \in HalfEdgeKeys :
              e <= log.swept => /\ diagram.half_edges[e].origin # None
                                /\ diagram.half_edges[e].destination # None
    /\ ClippingMetEnds

\* complete_edges has returned and a half-edge of the sweep starts at the
\* vertex of a circle event and ends at a vertex that complete_edges added
C33_Witness ==
    /\ pc = "clip"
    /\ \E e \in HalfEdgeKeys :
          /\ e <= log.swept
          /\ diagram.half_edges[e].origin # None
          /\ diagram.half_edges[e].destination # None
          /\ diagram.half_edges[e].origin <= CircleVertices
          /\ diagram.half_edges[e].destination > CircleVertices

(***************************************************************************)
(* link_vertices alone: a face with two half-edges, start_edge (1) that    *)
(* ends on start_side of the unit square and end_edge (2) that starts on   *)
(* end_side, for every pair of sides.  clip holds the diagram, the two     *)
(* half-edges and the two sides.                                           *)
(***************************************************************************)
Sides == {"Left", "Right", "Top", "Bottom"}

\* the places on a side are at LinkSteps equal steps between its corners
LinkSteps == 4

\* the points on a side of the unit square, the corners left out
SidePoints(side) ==
    {IF side = "Left" THEN Vec(Zero, Num(i, LinkSteps))
     ELSE IF side = "Right" THEN Vec(One, Num(i, LinkSteps))
     ELSE IF side = "Top" THEN Vec(Num(i, LinkSteps), Zero)
     ELSE Vec(Num(i, LinkSteps), One) : i \in 1..(LinkSteps - 1)}

\* a face, start_edge ending at point start, end_edge starting at point end
LinkDiagram(start, end) ==
    set_half_edge_origin(
        set_half_edge_destination(
            add_vertex(
                add_vertex(
                    add_half_edge(
                        add_half_edge(add_face(EmptyDiagram, Vec(Half, Half)), 1),
                        1),
                    start),
                end),
            1, 1),
        2, 2)

InitLink ==
    /\ pc = "link"
    /\ points = <<>>
    /\ queue = <<>>
    /\ event_count = 0
    /\ beachline = EmptyBeachline
    /\ diagram = EmptyDiagram
    /\ panic = NoPanic
    /\ log = EmptyLog
    /\ typed_vec = <<>>
    /\ issued = <<>>
    /\ segment = NoSegment
    /\ intersections = <<>>
    /\ edges = <<>>
    /\ breakpoint = NoBreakpoint
    /\ \E start_side, end_side \in Sides :
          \E start \in SidePoints(start_side), end \in SidePoints(end_side) :
              clip = [NoClip EXCEPT !.d = LinkDiagram(start, end),
                                    !.outgoing_half_edge = 1,
                                    !.outgoing_side = start_side,
                                    !.incoming_half_edge = 2,
                                    !.incoming_side = end_side]
    /\ iterator = NoIterator

\* link_vertices(voronoi, start_edge, start_side, end_edge, end_side)
LinkVertices ==
    /\ pc = "link"
    /\ pc' = "linked"
    /\ clip' = ClipLinked(clip, link_vertices(UnitBox, clip.d, clip.outgoing_half_edge,
                                              clip.outgoing_side,
                                              clip.incoming_half_edge,
                                              clip.incoming_side))
    /\ UNCHANGED <<points, queue, event_count, beachline, diagram, panic, log>>
    /\ UNCHANGED <<typed_vec, issued, segment, intersections, edges, breakpoint, iterator>>

NextLink == LinkVertices

SpecLink == InitLink /\ [][NextLink]_vars

\* the half-edges after e along next up to end_edge, end_edge left out;
\* <<None>> is appended when the walk stops before end_edge
RECURSIVE Between(_, _, _, _)
Between(d, e, end_edge, steps) ==
    LET next == d.half_edges[e].next
    IN  IF next = end_edge THEN <<>>
        ELSE IF next = None \/ steps = 0 THEN <<None>>
        ELSE <<next>> \o Between(d, next, end_edge, steps - 1)

\* the new half-edges of the call, in the order of the chain
NewChain == Between(clip.d, clip.outgoing_half_edge, clip.incoming_half_edge,
                    clip.d.half_edge_count)

\* the half-edge before the i-th new half-edge in the chain
Predecessor(i) == IF i = 1 THEN clip.outgoing_half_edge ELSE NewChain[i - 1]

\* C34: for every pair of sides among Left, Right, Top and Bottom,
\* link_vertices returns without asking for an invalid corner, has added at
\* most 3 corner vertices, and leaves the chain start_edge, the new
\* half-edges, end_edge along next, in which every new half-edge is incident
\* to the face of start_edge and starts where the half-edge before it ends.
C34_LinkVerticesChain ==
    pc = "linked" =>
        /\ clip.panic = NoPanic
        /\ clip.d.vertex_count <= 2 + 3
        /\ NewChain # <<>>
        /\ {NewChain[i] : i \in 1..Len(NewChain)} = 3..clip.d.half_edge_count
        /\ Len(NewChain) = clip.d.half_edge_count - 2
        /\ \A i \in 1..Len(NewChain) :
              /\ clip.d.half_edges[NewChain[i]].incident_face
                    = clip.d.half_edges[clip.outgoing_half_edge].incident_face
              /\ clip.d.half_edges[NewChain[i]].origin # None
              /\ clip.d.half_edges[NewChain[i]].origin
                    = clip.d.half_edges[Predecessor(i)].destination

\* link_vertices has gone from a side round three corners to the side that
\* comes before it
C34_Witness ==
    /\ pc = "linked"
    /\ clip.outgoing_side = SideNext(clip.incoming_side)
    /\ clip.d.vertex_count = 2 + 3
    /\ Len(NewChain) = 4

(***************************************************************************)
(* The EdgeIterator of diagram.rs on the diagram that build_voronoi        *)
(* returned.  iterator is [start_edge, current_edge, yielded]: the fields  *)
(* of the EdgeIterator and, as history, the half-edges that next has       *)
(* returned.  The caller stops at the first None, as a for loop does.      *)
(***************************************************************************)
\* the caller asks for at most MaxYielded half-edges
MaxYielded == 12

\* the unwraps of outer_edge_iter and of get_half_edge_next
IteratorNoOuterComponent == "outer_edge_iter: get_face_outer_component is None"
IteratorPanic == "get_half_edge_next: the half-edge is not in the diagram"

\* outer_edge_iter
outer_edge_iter(d, face) ==
    [start_edge |-> d.faces[face].outer_component, current_edge |-> None,
     yielded |-> <<>>]

\* a next that does not look for start_edge
iterator_current_unchecked(d, it) ==
    IF it.current_edge = None THEN it.start_edge
    ELSE d.half_edges[it.current_edge].next

\* the current_edge that EdgeIterator::next leaves; the half-edge asked for
\* its next is in d
iterator_current(d, it) ==
    IF it.current_edge = None THEN it.start_edge
    ELSE IF d.half_edges[it.current_edge].next = it.start_edge THEN None
    ELSE d.half_edges[it.current_edge].next

\* EdgeIterator::next: the iterator after the call
iterator_next(d, it) ==
    [it EXCEPT !.current_edge = iterator_current(d, it),
               !.yielded = IF iterator_current(d, it) = None THEN @
                           ELSE Append(@, iterator_current(d, it))]

\* the caller makes the iterator of a face of the diagram returned
OuterEdgeIter ==
    /\ pc = "done"
    /\ \E face \in 1..Len(diagram.faces) :
          IF diagram.faces[face].outer_component = None
          THEN /\ pc' = "panic"
               /\ panic' = IteratorNoOuterComponent
               /\ UNCHANGED iterator
          ELSE /\ pc' = "iterating"
               /\ iterator' = outer_edge_iter(diagram, face)
               /\ UNCHANGED panic
    /\ UNCHANGED <<points, queue, event_count, beachline, diagram, log>>
    /\ UNCHANGED <<typed_vec, issued, segment, intersections, edges, breakpoint, clip>>

\* the caller calls next on the iterator
IteratorNext ==
    /\ pc = "iterating"
    /\ Len(iterator.yielded) < MaxYielded
    /\ IF iterator.current_edge # None /\ iterator.current_edge \notin HalfEdgeKeys
       THEN /\ pc' = "panic"
            /\ panic' = IteratorPanic
            /\ UNCHANGED iterator
       ELSE /\ iterator' = iterator_next(diagram, iterator)
            /\ pc' = IF iterator_current(diagram, iterator) = None
                     THEN "iterated" ELSE "iterating"
            /\ UNCHANGED panic
    /\ UNCHANGED <<points, queue, event_count, beachline, diagram, log>>
    /\ UNCHANGED <<typed_vec, issued, segment, intersections, edges, breakpoint, clip>>

NextIterator ==
    \/ Next
    \/ OuterEdgeIter
    \/ IteratorNext

SpecIterator == Init /\ [][NextIterator]_vars

\* the half-edge reached from e in n steps along next
RECURSIVE NthNext(_, _, _)
NthNext(d, e, n) == IF n = 0 THEN e ELSE NthNext(d, d.half_edges[e].next, n - 1)

\* the number of half-edges of the cycle along next through the start_edge
\* of the iterator, 0 when the walk from it does not come back to it
CycleLength ==
    WalkLength(diagram, iterator.start_edge, iterator.start_edge,
               diagram.half_edge_count)

\* C35: when the half-edges of a face are a cycle of k half-edges along next
\* through its outer component, the iterator of the face yields the
\* outer component first, then the half-edges of the cycle in turn, each
\* once, and returns None after the k-th.
C35_IteratorYieldsCycle ==
    (iterator # NoIterator /\ CycleLength > 0) =>
        /\ panic # IteratorPanic
        /\ Len(iterator.yielded) <= CycleLength
        /\ \A i \in 1..Len(iterator.yielded) :
              iterator.yielded[i] = NthNext(diagram, iterator.start_edge, i - 1)
        /\ \A i, j \in 1..Len(iterator.yielded) :
              iterator.yielded[i] = iterator.yielded[j] => i = j
        /\ pc = "iterated" => Len(iterator.yielded) = CycleLength

\* the iterator has ended on a face of five or more half-edges, in a diagram
\* from which the clipping pass removed half-edges
C35_Witness ==
    /\ pc = "iterated"
    /\ CycleLength >= 5
    /\ Len(iterator.yielded) = CycleLength
    /\ Cardinality(HalfEdgeKeys) < diagram.half_edge_count

SiteEvents == Cardinality({i \in 1..Len(log.popped) : log.popped[i].kind = "site"})
CircleEvents == Cardinality({i \in 1..Len(log.popped) : log.popped[i].kind = "circle"})

\* C37: between two events of the loop, after the first site event, the
\* beachline holds 2s - 1 - c arcs, s the number of site events and c the
\* number of circle events handled so far.
C37_ArcCount ==
    (pc = "loop" /\ SiteEvents >= 1) =>
        /\ Cardinality(DOMAIN beachline.arcs) = 2 * SiteEvents - 1 - CircleEvents
        /\ Len(ArcsInOrder) = 2 * SiteEvents - 1 - CircleEvents

\* four site events and two circle events have been handled
C37_Witness ==
    /\ pc = "loop"
    /\ SiteEvents = 4
    /\ CircleEvents = 2
    /\ Len(ArcsInOrder) = 5

\* the half-edge e of an arc is a half-edge of the diagram incident to the
\* face of the arc's site
OwnHalfEdge(arc, e) ==
    /\ e \in HalfEdgeKeys
    /\ diagram.half_edges[e].incident_face = beachline.arcs[arc].site

\* C38: between two events of the loop, the left half-edge of every arc of
\* the beachline is set exactly when the arc has a previous arc and its
\* right half-edge exactly when it has a next arc, every half-edge that is
\* set is incident to the face of the arc's site, and neither the circle
\* handler nor complete_edges ever unwraps a half-edge of an arc that is None.
C38_ArcHalfEdgesMatchNeighbours ==
    /\ pc = "loop" =>
          \A arc \in DOMAIN beachline.arcs :
              /\ (beachline.arcs[arc].left_half_edge # None)
                    <=> (beachline.arcs[arc].prev # None)
              /\ (beachline.arcs[arc].right_half_edge # None)
                    <=> (beachline.arcs[arc].next # None)
              /\ beachline.arcs[arc].left_half_edge # None
                    => OwnHalfEdge(arc, beachline.arcs[arc].left_half_edge)
              /\ beachline.arcs[arc].right_half_edge # None
                    => OwnHalfEdge(arc, beachline.arcs[arc].right_half_edge)
    /\ panic \notin {"remove_arc: get_left_half_edge(arc) is None",
                     "remove_arc: get_right_half_edge(arc) is None",
                     "remove_arc: get_right_half_edge(prev) is None",
                     "remove_arc: get_left_half_edge(next) is None",
                     "complete_edges: get_left_half_edge is None",
                     "complete_edges: get_right_half_edge is None"}

\* after site events and a circle event the beachline has five arcs or
\* more: the first has only a right half-edge, the last only a left one, and
\* an arc between them has both
C38_Witness ==
    /\ pc = "loop"
    /\ CircleEvents >= 1
    /\ Len(ArcsInOrder) >= 5
    /\ beachline.arcs[ArcsInOrder[1]].left_half_edge = None
    /\ beachline.arcs[ArcsInOrder[1]].right_half_edge # None
    /\ beachline.arcs[ArcsInOrder[Len(ArcsInOrder)]].right_half_edge = None
    /\ beachline.arcs[ArcsInOrder[2]].left_half_edge
          # beachline.arcs[ArcsInOrder[2]].right_half_edge

\* C39: between two events of the loop, every circle event of the queue
\* is for an arc of the beachline that has a previous and a next arc (so
\* neither the first nor the last arc has one), and the circle handler never
\* fails to find the arc of the popped event or one of its two neighbours.
C39_CircleEventArcHasNeighbours ==
    /\ pc = "loop" =>
          \A k \in LiveCircleEvents :
              /\ queue[k].arc \in DOMAIN beachline.arcs
              /\ beachline.arcs[queue[k].arc].prev # None
              /\ beachline.arcs[queue[k].arc].next # None
    /\ panic \notin {"handle_circle_event: the arc is not in the beachline",
                     "handle_circle_event: get_prev(arc) is None",
                     "handle_circle_event: get_next(arc) is None"}

\* a circle event has been handled and another one is in the queue, for
\* the second arc of a beachline of five arcs or more
C39_Witness ==
    /\ pc = "loop"
    /\ CircleEvents >= 1
    /\ Len(ArcsInOrder) >= 5
    /\ \E k \in LiveCircleEvents : queue[k].arc = ArcsInOrder[2]

(***************************************************************************)
(* Claims on the clipping pass.                                            *)
(***************************************************************************)
\* both ends of half-edge e are outside the unit square and the segment
\* between them has two intersections with it
CrossesTwice(e) ==
    LET origin == get_vertex_point(diagram, diagram.half_edges[e].origin)
        destination == get_vertex_point(diagram, diagram.half_edges[e].destination)
    IN  /\ ~contains(UnitBox, origin)
        /\ ~contains(UnitBox, destination)
        /\ Len(get_intersections(UnitBox, origin, destination)) = 2

\* half-edge e and its two ends are in the diagram after the step
KeptWithEnds(e) ==
    /\ e \in DOMAIN diagram'.half_edges
    /\ diagram'.half_edges[e].origin \in DOMAIN diagram'.vertices
    /\ diagram'.half_edges[e].destination \in DOMAIN diagram'.vertices

\* after the step the origin of e is nearer to the origin it had than its
\* destination is
DirectionKept(e) ==
    LET origin == get_vertex_point(diagram, diagram.half_edges[e].origin)
    IN  FLt(Distance2(get_vertex_point(diagram', diagram'.half_edges[e].origin),
                      origin),
            Distance2(get_vertex_point(diagram', diagram'.half_edges[e].destination),
                      origin))

CrossingKeepsDirection ==
    (pc = "clip" /\ pc' = "done") =>
        \A e \in HalfEdgeKeys : (CrossesTwice(e) /\ KeptWithEnds(e)) => DirectionKept(e)

\* C40: a half-edge that has both ends outside the box and two intersections
\* with it keeps its direction in the clipping pass: its new origin is the
\* intersection nearer to its old origin and its new destination the one
\* nearer to its old destination (the side recorded as outgoing is that of
\* the second intersection, the new destination).
C40_CrossingKeepsDirection == [][CrossingKeepsDirection]_vars

=============================================================================
